---- MODULE Spec2Model ----
(***************************************************************************)
(* Media-library scanning core of audiobookshelf (network-mount fork):     *)
(*   - LibraryItemScanData.checkLibraryItemData / compareUpdateLibraryFile *)
(*     (reconciliation of a persisted library item with a fresh scan),     *)
(*   - ProbeCache (content-addressed LRU/TTL cache of ffprobe results),    *)
(*   - Prober (timeout / retry wrapper around the external ffprobe tool).  *)
(* Each component has its own specification: SpecRecon, SpecCache,         *)
(* SpecProber.                                                             *)
(***************************************************************************)
EXTENDS Integers, Sequences, FiniteSets, TLC

VARIABLES
  \* ---- reconciler ----
  ignoreMeta,   \* IGNORE_FILE_METADATA_CHANGES (TRUE = Tolerant policy)
  fs,           \* the item as it is on disk: what the next scan sees (this)
  existing,     \* existingLibraryItem, the persisted record
  before,       \* existingLibraryItem as it was when the last call started
  report,       \* hasChanges, hasPathChange, libraryFiles* and return value
  phase,        \* "idle" | "scanned": report and before are those of a call
  scanNo,       \* number of checkLibraryItemData calls so far (Date.now())
  fsEvents,     \* number of file-system changes so far
  \* ---- probe cache ----
  cacheEnabled, \* scanConfig.shouldUseCache()
  disk,         \* path -> what the file holds: head (first 1MiB), size,
                \* readable (fs.open works), statable (fs.stat works)
  lru,          \* this.cache: entries [key, value, age], least recent first
  stats,        \* this.stats: hits, misses, errors
  call,         \* the ProbeCache call in flight, and how far it has got
  lastCall,     \* the call that completed last, with what it saw and returned
  touched,      \* history since the last clear: per key not evicted, the data
                \* last stored and the time since its last touch (successful
                \* set or get hit), oldest touch first
  nCalls,       \* calls started so far
  \* ---- prober ----
  retryTimes,   \* scanConfig.PROBE_RETRY_TIMES
  probe,        \* the call of Prober.probe: where it is and what it returned
  race,         \* the promise of withTimeout (Promise.race)
  deadline,     \* seconds until the timer of withTimeout fires
  retry,        \* the call of withRetry: loop index, attempts made, outcome
  elapsed,      \* seconds since probeWithProtection() was called
  \* ---- the external tool ----
  child,        \* the ffprobe child process: what it wrote, how it ended
  toolCall,     \* the call that spawned it and the promise it returned
  \* ---- prober, partial-read variant ----
  usePartialRead, \* scanConfig.USE_PARTIAL_READ !== false
  nowMs,        \* Date.now(), in milliseconds
  tempDir,      \* this.TempProbeDir: temporary file name -> what it holds
  objects,      \* the result objects made so far, by reference
  probes,       \* the calls of Prober.probe: where each is, what it holds
  \* ---- scanConfig ----
  matching      \* the call of isLibraryFileMatch: arguments, policy, result

reconVars == <<ignoreMeta, fs, existing, before, report, phase, scanNo, fsEvents>>

cacheVars == <<cacheEnabled, disk, lru, stats, call, lastCall, touched, nCalls>>

proberVars == <<retryTimes, probe, race, deadline, retry, elapsed>>

toolVars == <<child, toolCall>>

partialVars == <<usePartialRead, nowMs, tempDir, objects, probes>>

matchVars == <<matching>>

vars == <<reconVars, cacheVars, proberVars, toolVars, partialVars, matchVars>>

----------------------------------------------------------------------------
(* Bounds of the model *)

MaxFiles == 2
MaxFsEvents == 2
MaxScans == 2
MaxCalls == 4

(* Configuration: small values of the environment-configured settings *)

PROBE_CACHE_SIZE == 2
PROBE_CACHE_TTL == 1
PROBE_TIMEOUT == 2

MaxTimes == 3

(* parseInt(process.env.PROBE_RETRY_TIMES) || 3 *)

DefaultRetryTimes == 3

(* Value domains the file system draws from *)

NoIno == 0
Inos == {NoIno, 1, 2}
Times == {1, 2}
Sizes == {1, 2}
FilePaths == {"A", "B", "C"}
PathRank(p) == CASE p = "A" -> 1 [] p = "B" -> 2 [] p = "C" -> 3
ItemPaths == {"/lib/x", "/lib/y"}
ItemRelPaths == {"x", "y"}
FolderIds == {"f1", "f2"}
ScannerVersion == "v2"

\* relPath of a file is its path relative to the item folder
RelPathOf(p) == "rel/" \o p

----------------------------------------------------------------------------
(* Sequence helpers *)

\* mutant: the sum misses the last file of the list
RECURSIVE SumSizes_SkipLast(_)
SumSizes_SkipLast(files) ==
  IF Len(files) <= 1 THEN 0
  ELSE Head(files).size + SumSizes_SkipLast(Tail(files))

RECURSIVE SumSizes(_)
SumSizes(files) ==
  IF files = <<>> THEN 0 ELSE Head(files).size + SumSizes(Tail(files))

\* Array.prototype.find: the first of the indexes that pass the test, 0 if none
FindFirst(hits) ==
  IF hits = {} THEN 0 ELSE CHOOSE j \in hits : \A k \in hits : j <= k

\* mutant: libraryFilesAdded is never filtered
PickFrom_All(seq, idx, j) ==
  IF j > Len(seq) THEN <<>> ELSE SubSeq(seq, j, Len(seq))

\* mutant: the elements picked come out last first
RECURSIVE PickFrom_Reversed(_, _, _)
PickFrom_Reversed(seq, idx, j) ==
  IF j > Len(seq) THEN <<>>
  ELSE PickFrom_Reversed(seq, idx, j + 1)
         \o (IF j \in idx THEN <<seq[j]>> ELSE <<>>)

\* elements of seq whose index is in idx, order kept
RECURSIVE PickFrom(_, _, _)
PickFrom(seq, idx, j) ==
  IF j > Len(seq) THEN <<>>
  ELSE (IF j \in idx THEN <<seq[j]>> ELSE <<>>) \o PickFrom(seq, idx, j + 1)

----------------------------------------------------------------------------
(* LibraryItemScanData.compareUpdateLibraryFile *)

MetadataKeys == <<"path", "relPath", "size", "mtimeMs", "ctimeMs">>

\* scanConfig.hasLibraryFileChanged
hasLibraryFileChanged(ex, sc, ignore) ==
  IF ex.path # sc.path \/ ex.size # sc.size THEN TRUE
  ELSE IF ~ignore
    THEN ex.ino # sc.ino \/ ex.mtimeMs # sc.mtimeMs \/ ex.ctimeMs # sc.ctimeMs
  ELSE FALSE

\* mutant: under Tolerant the timestamps are skipped instead of copied
CompareMetadataKey_SkipTimes(acc, sc, key, ignore) ==
  IF ignore /\ key \in {"mtimeMs", "ctimeMs"}
    THEN acc
  ELSE IF acc.file[key] # sc[key]
    THEN IF key \in {"size", "path", "relPath"} \/ ~ignore
           THEN [file |-> [acc.file EXCEPT ![key] = sc[key]], hasChanges |-> TRUE]
         ELSE [acc EXCEPT !.file[key] = sc[key]]
  ELSE acc

\* mutant: under Tolerant a size difference is synced silently, like a timestamp
CompareMetadataKey_SizeSilent(acc, sc, key, ignore) ==
  IF ignore /\ key \in {"mtimeMs", "ctimeMs", "size"}
    THEN [acc EXCEPT !.file[key] = sc[key]]
  ELSE IF acc.file[key] # sc[key]
    THEN [file |-> [acc.file EXCEPT ![key] = sc[key]], hasChanges |-> TRUE]
  ELSE acc

\* mutant: a path difference is reported but the stored path is kept
CompareMetadataKey_PathKept(acc, sc, key, ignore) ==
  IF ignore /\ key \in {"mtimeMs", "ctimeMs"}
    THEN [acc EXCEPT !.file[key] = sc[key]]
  ELSE IF acc.file[key] # sc[key]
    THEN IF key \in {"path", "relPath"}
           THEN [acc EXCEPT !.hasChanges = TRUE]
         ELSE IF key = "size" \/ ~ignore
           THEN [file |-> [acc.file EXCEPT ![key] = sc[key]], hasChanges |-> TRUE]
         ELSE [acc EXCEPT !.file[key] = sc[key]]
  ELSE acc

\* one iteration of `for (const key in existingLibraryFile.metadata)`
CompareMetadataKey(acc, sc, key, ignore) ==
  IF ignore /\ key \in {"mtimeMs", "ctimeMs"}
    THEN [acc EXCEPT !.file[key] = sc[key]]
  ELSE IF acc.file[key] # sc[key]
    THEN IF key \in {"size", "path", "relPath"}
           THEN [file |-> [acc.file EXCEPT ![key] = sc[key]], hasChanges |-> TRUE]
         ELSE IF ~ignore
           THEN [file |-> [acc.file EXCEPT ![key] = sc[key]], hasChanges |-> TRUE]
         ELSE [acc EXCEPT !.file[key] = sc[key]]
  ELSE acc

RECURSIVE CompareMetadata(_, _, _, _)
CompareMetadata(acc, sc, k, ignore) ==
  IF k > Len(MetadataKeys) THEN acc
  ELSE CompareMetadata(CompareMetadataKey(acc, sc, MetadataKeys[k], ignore),
                       sc, k + 1, ignore)

\* mutant: under Tolerant the stored inode of a file is left as it is
CompareIno_TolerantKeeps(ex, sc, ignore) ==
  IF ~ignore /\ ex.ino # sc.ino
    THEN [file |-> [ex EXCEPT !.ino = sc.ino], hasChanges |-> TRUE]
  ELSE [file |-> ex, hasChanges |-> FALSE]

\* the ino comparison at the head of compareUpdateLibraryFile
CompareIno(ex, sc, ignore) ==
  IF ~ignore /\ ex.ino # sc.ino
    THEN [file |-> [ex EXCEPT !.ino = sc.ino], hasChanges |-> TRUE]
  ELSE IF ignore
    THEN [file |-> [ex EXCEPT !.ino = sc.ino], hasChanges |-> FALSE]
  ELSE [file |-> ex, hasChanges |-> FALSE]

\* mutant: a changed file gets the time of the scan as its mtimeMs
compareUpdateLibraryFile_ClockInMtime(ex, sc, ignore, now) ==
  LET r == CompareMetadata(CompareIno(ex, sc, ignore), sc, 1, ignore)
  IN IF r.hasChanges
       THEN [file |-> [r.file EXCEPT !.updatedAt = now, !.mtimeMs = now],
             hasChanges |-> TRUE]
       ELSE r

\* mutant: updatedAt is stamped on every compared file
compareUpdateLibraryFile_AlwaysStamps(ex, sc, ignore, now) ==
  LET r == CompareMetadata(CompareIno(ex, sc, ignore), sc, 1, ignore)
  IN [file |-> [r.file EXCEPT !.updatedAt = now], hasChanges |-> r.hasChanges]

\* returns the updated existing file and the method's return value
compareUpdateLibraryFile(ex, sc, ignore, now) ==
  LET r == CompareMetadata(CompareIno(ex, sc, ignore), sc, 1, ignore)
  IN IF r.hasChanges
       THEN [file |-> [r.file EXCEPT !.updatedAt = now], hasChanges |-> TRUE]
       ELSE r

----------------------------------------------------------------------------
(* LibraryItemScanData.checkLibraryItemData *)

keysToCompare(ignore) ==
  IF ~ignore
    THEN <<"ino", "libraryFolderId", "path", "relPath", "isFile">>
    ELSE <<"libraryFolderId", "path", "relPath", "isFile">>

\* mutant: every key that differs counts as a path change
RECURSIVE CompareItemKeys_AllPath(_, _, _, _)
CompareItemKeys_AllPath(acc, this, keys, k) ==
  IF k > Len(keys) THEN acc
  ELSE LET key == keys[k]
           nxt == IF acc.item[key] # this[key]
                    THEN [item |-> [acc.item EXCEPT ![key] = this[key]],
                          hasChanges |-> TRUE,
                          hasPathChange |-> TRUE]
                    ELSE acc
       IN CompareItemKeys_AllPath(nxt, this, keys, k + 1)

\* `for (const key of keysToCompare)`: adopt the scanned value of every key
\* that differs
RECURSIVE CompareItemKeys(_, _, _, _)
CompareItemKeys(acc, this, keys, k) ==
  IF k > Len(keys) THEN acc
  ELSE LET key == keys[k]
           nxt == IF acc.item[key] # this[key]
                    THEN [item |-> [acc.item EXCEPT ![key] = this[key]],
                          hasChanges |-> TRUE,
                          hasPathChange |->
                            acc.hasPathChange \/ key \in {"relPath", "path"}]
                    ELSE acc
       IN CompareItemKeys(nxt, this, keys, k + 1)

\* mutant: mtime is compared with the scanned ctimeMs
CompareItemTimes_WrongField(acc, this, ignore) ==
  IF ~ignore
    THEN LET m == IF acc.item.mtime # this.ctimeMs
                    THEN [acc EXCEPT !.item.mtime = this.mtimeMs,
                                     !.hasChanges = TRUE]
                    ELSE acc
             b == IF m.item.birthtime # this.birthtimeMs
                    THEN [m EXCEPT !.item.birthtime = this.birthtimeMs,
                                   !.hasChanges = TRUE]
                    ELSE m
         IN IF b.item.ctime # this.ctimeMs
              THEN [b EXCEPT !.item.ctime = this.ctimeMs, !.hasChanges = TRUE]
              ELSE b
    ELSE [acc EXCEPT !.item.mtime = this.mtimeMs,
                     !.item.birthtime = this.birthtimeMs,
                     !.item.ctime = this.ctimeMs]

\* mtime, birthtime and ctime: compared under Strict, copied under Tolerant
CompareItemTimes(acc, this, ignore) ==
  IF ~ignore
    THEN LET m == IF acc.item.mtime # this.mtimeMs
                    THEN [acc EXCEPT !.item.mtime = this.mtimeMs,
                                     !.hasChanges = TRUE]
                    ELSE acc
             b == IF m.item.birthtime # this.birthtimeMs
                    THEN [m EXCEPT !.item.birthtime = this.birthtimeMs,
                                   !.hasChanges = TRUE]
                    ELSE m
             c == IF b.item.ctime # this.ctimeMs
                    THEN [b EXCEPT !.item.ctime = this.ctimeMs,
                                   !.hasChanges = TRUE]
                    ELSE b
         IN c
    ELSE [acc EXCEPT !.item.mtime = this.mtimeMs,
                     !.item.birthtime = this.birthtimeMs,
                     !.item.ctime = this.ctimeMs]

ClearMissing(acc) ==
  IF acc.item.isMissing
    THEN [acc EXCEPT !.item.isMissing = FALSE, !.hasChanges = TRUE]
    ELSE acc

\* mutant: no inode fallback
MatchingLibraryFile_PathOnly(scanned, ex, ignore) ==
  FindFirst({j \in 1..Len(scanned) : scanned[j].path = ex.path})

\* mutant: the inode fallback is taken under both policies
MatchingLibraryFile_InoAlways(scanned, ex, ignore) ==
  LET byPath == FindFirst({j \in 1..Len(scanned) : scanned[j].path = ex.path})
  IN IF byPath = 0
       THEN FindFirst({j \in 1..Len(scanned) : scanned[j].ino = ex.ino})
       ELSE byPath

\* index in this.libraryFiles of the file matching an existing file: by path
\* first, by inode as a fallback unless metadata changes are ignored
MatchingLibraryFile(scanned, ex, ignore) ==
  LET byPath == FindFirst({j \in 1..Len(scanned) : scanned[j].path = ex.path})
  IN IF byPath = 0 /\ ~ignore
       THEN FindFirst({j \in 1..Len(scanned) : scanned[j].ino = ex.ino})
       ELSE byPath

\* `for (const existingLibraryFile of existingLibraryItem.libraryFiles)`:
\* the loop walks the array it started with (orig); acc.files is the array
\* existingLibraryItem.libraryFiles points to, acc.added the indexes of
\* this.libraryFiles still in libraryFilesAdded
RECURSIVE MatchFiles(_, _, _, _, _, _)
MatchFiles(acc, orig, i, scanned, ignore, now) ==
  IF i > Len(orig) THEN acc
  ELSE LET ex == orig[i]
           m == MatchingLibraryFile(scanned, ex, ignore)
           nxt ==
             IF m = 0
               THEN [acc EXCEPT !.removed = Append(@, ex),
                                !.hasChanges = TRUE]
               ELSE LET cmp == compareUpdateLibraryFile(ex, scanned[m], ignore, now)
                    IN [acc EXCEPT
                          !.added = @ \ {m},
                          !.files = Append(@, cmp.file),
                          !.modified = IF cmp.hasChanges
                                         THEN Append(@, [old |-> ex, new |-> cmp.file])
                                         ELSE @,
                          !.hasChanges = @ \/ cmp.hasChanges]
       IN MatchFiles(nxt, orig, i + 1, scanned, ignore, now)

\* libraryFile.toJSON() of an added file, after the e-book convention
AddedFileJSON(lf) ==
  [lf EXCEPT !.isSupplementary = @ \/ lf.isEBookFile]

RECURSIVE AddedFilesJSON(_)
AddedFilesJSON(files) ==
  IF files = <<>> THEN <<>>
  ELSE <<AddedFileJSON(Head(files))>> \o AddedFilesJSON(Tail(files))

\* the whole method: the record it leaves and the report it fills in
checkLibraryItemData(ex, this, ignore, now) ==
  LET start == [item |-> ex, hasChanges |-> FALSE, hasPathChange |-> FALSE]
      keyed == CompareItemKeys(start, this, keysToCompare(ignore), 1)
      timed == ClearMissing(CompareItemTimes(keyed, this, ignore))
      scanned == this.libraryFiles
      matched == MatchFiles([files |-> <<>>, removed |-> <<>>, modified |-> <<>>,
                             added |-> 1..Len(scanned),
                             hasChanges |-> timed.hasChanges],
                            ex.libraryFiles, 1, scanned, ignore, now)
      addedFiles == AddedFilesJSON(PickFrom(scanned, matched.added, 1))
      hasChanges == matched.hasChanges \/ addedFiles # <<>>
      files == matched.files \o addedFiles
      item == [timed.item EXCEPT !.libraryFiles = files]
  IN [item |-> IF hasChanges
                 THEN [item EXCEPT !.size = SumSizes(files),
                                   !.lastScan = now,
                                   !.lastScanVersion = ScannerVersion,
                                   !.saves = @ + 1]
                 ELSE item,
      report |-> [hasChanges |-> hasChanges,
                  hasPathChange |-> timed.hasPathChange,
                  libraryFilesAdded |-> addedFiles,
                  libraryFilesRemoved |-> matched.removed,
                  libraryFilesModified |-> matched.modified,
                  returned |-> hasChanges]]

----------------------------------------------------------------------------
(* scanConfig.isLibraryFileMatch, called on pairs of library files.  A file *)
(* may lack metadata.path or ino.                                           *)

NoPath == ""

MatchPaths == {NoPath, "A", "B"}

MatchFileSet ==
  [path : MatchPaths, ino : Inos, size : Sizes]

\* scanConfig.isLibraryFileMatch(file1, file2)
isLibraryFileMatch(file1, file2, ignore) ==
  IF file1.path # NoPath /\ file2.path # NoPath
    THEN file1.path = file2.path
  ELSE IF ~ignore /\ file1.ino # NoIno /\ file2.ino # NoIno
    THEN file1.ino = file2.ino
  ELSE FALSE

MatchIdle ==
  matching = [file1 |-> [path |-> NoPath, ino |-> NoIno, size |-> 1],
              file2 |-> [path |-> NoPath, ino |-> NoIno, size |-> 1],
              ignore |-> FALSE, state |-> "idle", result |-> FALSE]

MatchInit ==
  \E f1 \in MatchFileSet : \E f2 \in MatchFileSet : \E ig \in BOOLEAN :
    matching = [file1 |-> f1, file2 |-> f2, ignore |-> ig,
                state |-> "called", result |-> FALSE]

\* the call returns
MatchReturns ==
  /\ matching.state = "called"
  /\ matching' = [matching EXCEPT
       !.state = "returned",
       !.result = isLibraryFileMatch(matching.file1, matching.file2,
                                     matching.ignore)]
  /\ UNCHANGED <<reconVars, cacheVars, proberVars, toolVars, partialVars>>

\* the next call, on another pair of files
MatchCalled ==
  /\ matching.state = "returned"
  /\ \E f1 \in MatchFileSet : \E f2 \in MatchFileSet :
       matching' = [matching EXCEPT !.file1 = f1, !.file2 = f2,
                                    !.state = "called", !.result = FALSE]
  /\ UNCHANGED <<reconVars, cacheVars, proberVars, toolVars, partialVars>>

MatchNext ==
  \/ MatchReturns
  \/ MatchCalled

----------------------------------------------------------------------------
(* ProbeCache: the LRU cache it is built on.  new LRU({max, ttl,            *)
(* updateAgeOnGet: true, updateAgeOnHas: true}): an entry is stale once its *)
(* age exceeds ttl; a stale entry is deleted by the get that finds it; a    *)
(* get hit and a set move the entry to the most recent end and restart its  *)
(* age; a set of a new key into a full cache evicts the least recent entry. *)
(* Time is counted in seconds and kept as the age of each entry             *)
(* (performance.now() - start); ages past the TTL are not told apart.       *)

Null == "null"
NoKey == [hash |-> "none", size |-> 0]
Data == {"d1", "d2"}
CachePaths == {"p", "q", "r"}
ChangingPaths == {"p"}

Ttl == PROBE_CACHE_TTL

IndexOfKey(entries, k) ==
  FindFirst({j \in 1..Len(entries) : entries[j].key = k})

WithoutEntry(entries, j) ==
  SubSeq(entries, 1, j - 1) \o SubSeq(entries, j + 1, Len(entries))

IsStale(entry) == entry.age > Ttl

\* one second passes
Older(entries) ==
  [j \in 1..Len(entries) |->
     [entries[j] EXCEPT !.age = IF @ > Ttl THEN @ ELSE @ + 1]]

\* mutant: a stale entry is still handed out
LruGet_NoTtl(entries, k) ==
  LET j == IndexOfKey(entries, k)
  IN IF j = 0 THEN [entries |-> entries, value |-> Null]
     ELSE [entries |-> Append(WithoutEntry(entries, j),
                              [entries[j] EXCEPT !.age = 0]),
           value |-> entries[j].value]

\* mutant: a hit does not move the entry to the most recent end
LruGet_NoTouch(entries, k) ==
  LET j == IndexOfKey(entries, k)
  IN IF j = 0 THEN [entries |-> entries, value |-> Null]
     ELSE IF IsStale(entries[j])
       THEN [entries |-> WithoutEntry(entries, j), value |-> Null]
     ELSE [entries |-> [entries EXCEPT ![j].age = 0],
           value |-> entries[j].value]

\* cache.get(key)
LruGet(entries, k) ==
  LET j == IndexOfKey(entries, k)
  IN IF j = 0 THEN [entries |-> entries, value |-> Null]
     ELSE IF IsStale(entries[j])
       THEN [entries |-> WithoutEntry(entries, j), value |-> Null]
     ELSE [entries |-> Append(WithoutEntry(entries, j),
                              [entries[j] EXCEPT !.age = 0]),
           value |-> entries[j].value]

\* mutant: a set of a key already held keeps the value stored first
LruSet_KeepOld(entries, k, v) ==
  LET j == IndexOfKey(entries, k)
      entry == [key |-> k, value |-> v, age |-> 0]
  IN IF j # 0
       THEN [entries |-> Append(WithoutEntry(entries, j),
                                [entries[j] EXCEPT !.age = 0]),
             evicted |-> NoKey]
     ELSE IF Len(entries) >= PROBE_CACHE_SIZE
       THEN [entries |-> Append(Tail(entries), entry),
             evicted |-> Head(entries).key]
     ELSE [entries |-> Append(entries, entry), evicted |-> NoKey]

\* cache.set(key, value): the entries left and the key evicted, if any
LruSet(entries, k, v) ==
  LET j == IndexOfKey(entries, k)
      entry == [key |-> k, value |-> v, age |-> 0]
  IN IF j # 0
       THEN [entries |-> Append(WithoutEntry(entries, j), entry),
             evicted |-> NoKey]
     ELSE IF Len(entries) >= PROBE_CACHE_SIZE
       THEN [entries |-> Append(Tail(entries), entry),
             evicted |-> Head(entries).key]
     ELSE [entries |-> Append(entries, entry), evicted |-> NoKey]

----------------
(* ProbeCache.getFileSize, getFileHash, getCacheKey *)

\* fs.stat: the size, 0 when the file cannot be stat'd
getFileSize(file) == IF file.statable THEN file.size ELSE 0

\* sha256 of the first min(1MiB, size) bytes, cut to 32 hex digits
HashOf(head) == "sha:" \o head

\* Null when the file cannot be opened or read; the buffer is empty when
\* getFileSize gives 0
getFileHash(file) ==
  IF ~file.readable THEN Null
  ELSE IF getFileSize(file) = 0 THEN HashOf("")
  ELSE HashOf(file.head)

\* `${hash}_${fileSize}`; NoKey stands for null
getCacheKey(file, fileSize) ==
  IF getFileHash(file) = Null THEN NoKey
  ELSE [hash |-> getFileHash(file), size |-> fileSize]

----------------------------------------------------------------------------
(* ProbeCache.get, set and clear.  A call first stats the file (await       *)
(* getFileSize), then hashes its head (await getCacheKey) and, in the same  *)
(* turn of the event loop, reads or writes this.cache; the file may change  *)
(* and time may pass between the two.  One call is in flight at a time.     *)

IdleCall == [pc |-> "idle", op |-> "none", path |-> "p", data |-> Null, fileSize |-> 0]

\* op: the call; key: the cache key it computed; result: what get resolved
\* to; returned: what set resolved to; evicted: the key the LRU dropped
NoCall ==
  [op |-> "none", key |-> NoKey, result |-> Null, returned |-> FALSE,
   evicted |-> NoKey]

Completed(key, result, returned, evicted) ==
  [op |-> call.op, key |-> key, result |-> result, returned |-> returned,
   evicted |-> evicted]

\* history of touches: the entry of key k moves to the end
Touch(hist, k, d) ==
  LET j == IndexOfKey(hist, k)
      rest == IF j = 0 THEN hist ELSE WithoutEntry(hist, j)
  IN Append(rest, [key |-> k, data |-> d, age |-> 0])

HistData(hist, k) ==
  LET j == IndexOfKey(hist, k) IN IF j = 0 THEN Null ELSE hist[j].data

Forget(hist, k) ==
  LET j == IndexOfKey(hist, k) IN IF j = 0 THEN hist ELSE WithoutEntry(hist, j)

\* the key the call in flight computes: the head as it is now, the size as
\* it was when the call started
CallKey == getCacheKey(disk[call.path], call.fileSize)

InitialDisk ==
  [x \in CachePaths |->
     [head |-> x, size |-> 1, readable |-> TRUE, statable |-> TRUE]]

CacheIdle ==
  /\ cacheEnabled = FALSE
  /\ disk = InitialDisk
  /\ lru = <<>>
  /\ stats = [hits |-> 0, misses |-> 0, errors |-> 0]
  /\ call = IdleCall
  /\ lastCall = NoCall
  /\ touched = <<>>
  /\ nCalls = 0

CacheInit ==
  /\ cacheEnabled \in BOOLEAN
  /\ disk = InitialDisk
  /\ lru = <<>>
  /\ stats = [hits |-> 0, misses |-> 0, errors |-> 0]
  /\ call = IdleCall
  /\ lastCall = NoCall
  /\ touched = <<>>
  /\ nCalls = 0

\* get(filePath) or set(filePath, probeData) is called.  With caching off it
\* returns at once; otherwise const fileSize = await this.getFileSize(filePath)
BeginCall(op, path, d) ==
  /\ call.pc = "idle"
  /\ nCalls < MaxCalls
  /\ nCalls' = nCalls + 1
  /\ IF ~cacheEnabled
       THEN /\ call' = call
            /\ lastCall' = [NoCall EXCEPT !.op = op]
       ELSE /\ call' = [pc |-> "hash", op |-> op, path |-> path, data |-> d,
                        fileSize |-> getFileSize(disk[path])]
            /\ lastCall' = NoCall
  /\ UNCHANGED <<cacheEnabled, disk, lru, stats, touched>>
  /\ UNCHANGED <<reconVars, proberVars, toolVars, partialVars, matchVars>>

CallGet == \E path \in CachePaths : BeginCall("get", path, Null)

CallSet == \E path \in CachePaths : \E d \in Data : BeginCall("set", path, d)

\* mutant: a get that has no key counts a miss on top of the error
CountGet_ErrorAndMiss(st, key, value) ==
  IF key = NoKey THEN [st EXCEPT !.errors = @ + 1, !.misses = @ + 1]
  ELSE IF value # Null THEN [st EXCEPT !.hits = @ + 1]
  ELSE [st EXCEPT !.misses = @ + 1]

\* the counter a get bumps: errors in getFileHash when it fails, otherwise
\* hits when this.cache.get gave data and misses when it did not
CountGet(st, key, value) ==
  IF key = NoKey THEN [st EXCEPT !.errors = @ + 1]
  ELSE IF value # Null THEN [st EXCEPT !.hits = @ + 1]
  ELSE [st EXCEPT !.misses = @ + 1]

\* the rest of get: the key, then this.cache.get and the counters
FinishGet ==
  /\ call.pc = "hash"
  /\ call.op = "get"
  /\ LET key == CallKey
         got == LruGet(lru, key)
     IN IF key = NoKey
          THEN /\ stats' = CountGet(stats, NoKey, Null)
               /\ lastCall' = Completed(NoKey, Null, FALSE, NoKey)
               /\ UNCHANGED <<lru, touched>>
          ELSE /\ lru' = got.entries
               /\ lastCall' = Completed(key, got.value, FALSE, NoKey)
               /\ stats' = CountGet(stats, key, got.value)
               /\ IF got.value # Null
                    THEN touched' = Touch(touched, key, HistData(touched, key))
                    ELSE touched' = touched
  /\ call' = IdleCall
  /\ UNCHANGED <<cacheEnabled, disk, nCalls>>
  /\ UNCHANGED <<reconVars, proberVars, toolVars, partialVars, matchVars>>

\* the rest of set: the key, then this.cache.set
FinishSet ==
  /\ call.pc = "hash"
  /\ call.op = "set"
  /\ LET key == CallKey
         put == LruSet(lru, key, call.data)
     IN IF key = NoKey
          THEN /\ stats' = [stats EXCEPT !.errors = @ + 1]
               /\ lastCall' = Completed(NoKey, Null, FALSE, NoKey)
               /\ UNCHANGED <<lru, touched>>
          ELSE /\ lru' = put.entries
               /\ lastCall' = Completed(key, Null, TRUE, put.evicted)
               /\ touched' = Touch(Forget(touched, put.evicted), key, call.data)
               /\ stats' = stats
  /\ call' = IdleCall
  /\ UNCHANGED <<cacheEnabled, disk, nCalls>>
  /\ UNCHANGED <<reconVars, proberVars, toolVars, partialVars, matchVars>>

\* clear()
ClearCache ==
  /\ lru # <<>>
  /\ lru' = <<>>
  /\ touched' = <<>>
  /\ lastCall' = [NoCall EXCEPT !.op = "clear"]
  /\ UNCHANGED <<cacheEnabled, disk, stats, call, nCalls>>
  /\ UNCHANGED <<reconVars, proberVars, toolVars, partialVars, matchVars>>

\* one second passes
Tick ==
  /\ lru' = Older(lru)
  /\ touched' = Older(touched)
  /\ <<lru', touched'>> # <<lru, touched>>
  /\ UNCHANGED <<cacheEnabled, disk, stats, call, lastCall, nCalls>>
  /\ UNCHANGED <<reconVars, proberVars, toolVars, partialVars, matchVars>>

\* a file is rewritten, grows, or becomes unreadable (the mount drops); a
\* file changes at most once
ChangeFile ==
  /\ \E path \in ChangingPaths :
       /\ disk[path] = InitialDisk[path]
       /\ \/ disk' = [disk EXCEPT ![path].head = "new " \o path]
          \/ disk' = [disk EXCEPT ![path].size = 2]
          \/ disk' = [disk EXCEPT ![path].readable = FALSE,
                                  ![path].statable = FALSE]
  /\ disk' # disk
  /\ UNCHANGED <<cacheEnabled, lru, stats, call, lastCall, touched, nCalls>>
  /\ UNCHANGED <<reconVars, proberVars, toolVars, partialVars, matchVars>>

CacheNext ==
  \/ CallGet
  \/ CallSet
  \/ FinishGet
  \/ FinishSet
  \/ ClearCache
  \/ Tick
  \/ ChangeFile

----------------------------------------------------------------------------
(* Prober: withTimeout, withRetry and probe.  Time is counted in seconds.   *)
(* A timer that is due fires before more time passes, and the continuation  *)
(* of a settled promise runs before more time passes.                       *)

Undefined == "undefined"
ProbeTimeoutError == "Probe timeout"
TypeError == "TypeError"
Errors == {"e1", "e2"}
ProbeData == "data"
CachedData == "cached"

\* process.env.PROBE_RETRY_TIMES as parseInt reads it; 0 also stands for a
\* variable that is unset or not a number
EnvRetryTimes == {-1, 0, 1, 2}

\* parseInt(process.env.PROBE_RETRY_TIMES) || 3
ConfiguredRetryTimes(parsed) == IF parsed = 0 THEN DefaultRetryTimes ELSE parsed

\* the values of `times` a direct caller of withRetry passes
RetryArgs == 0..MaxTimes

NoTimer == -1

IdleRetry ==
  [pc |-> "idle", owner |-> "none", times |-> 0, i |-> 0, log |-> <<>>,
   lastError |-> Undefined, value |-> Undefined, timer |-> NoTimer,
   delays |-> <<>>]

IdleRace == [state |-> "none", value |-> Undefined, at |-> 0]

IdleProbe == [pc |-> "idle", result |-> [kind |-> "none", value |-> Undefined]]

\* mutant: the loop runs once more than `times`
LoopTest_OffByOne(i, times) == i <= times

\* for (let i = 0; i < times; i++)
LoopTest(i, times) == i < times

\* if (i < times - 1)
ShouldDelay(i, times) == i < times - 1

\* mutant: the same delay after every attempt
RetryDelay_Flat(i) == 1

\* setTimeout(resolve, 1000 * (i + 1))
RetryDelay(i) == i + 1

\* the head of the loop at index r.i: the next attempt, or throw lastError
EnterLoop(r) ==
  IF LoopTest(r.i, r.times)
    THEN [r EXCEPT !.pc = "attempt"]
    ELSE [r EXCEPT !.pc = "rejected", !.value = r.lastError]

\* withRetry(fn, times) up to its first await
withRetry(owner, times) ==
  EnterLoop([IdleRetry EXCEPT !.owner = owner, !.times = times])

\* return await fn(), fn having resolved
AfterSuccess(r) ==
  [r EXCEPT !.pc = "resolved", !.value = ProbeData, !.log = Append(@, "ok")]

\* catch (error) of the loop body, fn having rejected with e
AfterFailure(r, e) ==
  LET failed == [r EXCEPT !.lastError = e, !.log = Append(@, e)]
  IN IF ShouldDelay(r.i, r.times)
       THEN [failed EXCEPT !.pc = "delay", !.timer = RetryDelay(r.i),
                           !.delays = Append(@, RetryDelay(r.i))]
       ELSE EnterLoop([failed EXCEPT !.i = @ + 1])

\* the delay is over: i++ and back to the head of the loop
AfterDelay(r) == EnterLoop([r EXCEPT !.i = @ + 1, !.timer = NoTimer])

\* mutant: the timer does not reject the race
RaceOnTimer_Ignored(r, now) == r

\* setTimeout(() => reject(new Error('Probe timeout')), timeout) fires
RaceOnTimer(r, now) ==
  IF r.state = "pending"
    THEN [state |-> "rejected", value |-> ProbeTimeoutError, at |-> now]
    ELSE r

\* Promise.race: the retry promise settles
RaceOnRetry(r, outcome, now) ==
  IF r.state = "pending"
    THEN [state |-> outcome.pc, value |-> outcome.value, at |-> now]
    ELSE r

\* the file probe is called on, and its cache key
ProbedPath == "p"
ProbedKey ==
  getCacheKey(disk[ProbedPath], getFileSize(disk[ProbedPath]))

\* another file, probed and cached earlier
OtherPath == "q"
OtherKey ==
  getCacheKey(InitialDisk[OtherPath], getFileSize(InitialDisk[OtherPath]))
OtherEntry == LruSet(<<>>, OtherKey, CachedData).entries

\* the cache as a call of probe may find it: empty, or holding the data
\* earlier calls stored for the file, for another file, or for both
ProberCacheInit ==
  /\ cacheEnabled \in BOOLEAN
  /\ disk = InitialDisk
  /\ lru \in IF cacheEnabled
              THEN {<<>>, OtherEntry,
                    LruSet(<<>>, ProbedKey, CachedData).entries,
                    LruSet(OtherEntry, ProbedKey, CachedData).entries}
              ELSE {<<>>}
  /\ stats = [hits |-> 0, misses |-> 0, errors |-> 0]
  /\ call = IdleCall
  /\ lastCall = NoCall
  /\ touched = <<>>
  /\ nCalls = 0

ErrorResult(message) == [kind |-> "error", value |-> message]
DataResult(d) == [kind |-> "data", value |-> d]

ProberIdle ==
  /\ retryTimes = DefaultRetryTimes
  /\ probe = IdleProbe
  /\ race = IdleRace
  /\ deadline = NoTimer
  /\ retry = IdleRetry
  /\ elapsed = 0

ProberInit ==
  /\ retryTimes \in {ConfiguredRetryTimes(parsed) : parsed \in EnvRetryTimes}
  /\ probe = IdleProbe
  /\ race = IdleRace
  /\ deadline = NoTimer
  /\ retry = IdleRetry
  /\ elapsed = 0

\* probeWithProtection(): withRetry runs up to its first await, then
\* withTimeout arms the timer and races the two
StartProtection ==
  /\ retry' = withRetry("probe", retryTimes)
  /\ race' = [IdleRace EXCEPT !.state = "pending"]
  /\ deadline' = PROBE_TIMEOUT
  /\ elapsed' = 0
  /\ probe' = [probe EXCEPT !.pc = "protected"]

\* probe(filepath): await ProbeCache.get(filepath), which resolves to null at
\* once when caching is off
ProbeCall ==
  /\ probe.pc = "idle"
  /\ retry.pc = "idle"
  /\ IF cacheEnabled
       THEN /\ probe' = [probe EXCEPT !.pc = "cacheGet"]
            /\ UNCHANGED <<race, deadline, retry, elapsed>>
       ELSE StartProtection
  /\ UNCHANGED <<retryTimes, reconVars, cacheVars,
               toolVars, partialVars, matchVars>>

\* ProbeCache.get finds the data: if (cached) return cached
CacheHit ==
  /\ probe.pc = "cacheGet"
  /\ LET got == LruGet(lru, ProbedKey)
     IN /\ got.value # Null
        /\ lru' = got.entries
        /\ stats' = [stats EXCEPT !.hits = @ + 1]
        /\ probe' = [pc |-> "returned", result |-> DataResult(got.value)]
  /\ UNCHANGED <<retryTimes, race, deadline, retry, elapsed>>
  /\ UNCHANGED <<cacheEnabled, disk, call, lastCall, touched, nCalls>>
  /\ UNCHANGED <<reconVars, toolVars, partialVars, matchVars>>

\* ProbeCache.get resolves to null
CacheMiss ==
  /\ probe.pc = "cacheGet"
  /\ LET got == LruGet(lru, ProbedKey)
     IN /\ got.value = Null
        /\ lru' = got.entries
        /\ stats' = [stats EXCEPT !.misses = @ + 1]
  /\ StartProtection
  /\ UNCHANGED <<cacheEnabled, disk, call, lastCall, touched, nCalls>>
  /\ UNCHANGED <<retryTimes, reconVars, toolVars, partialVars, matchVars>>

\* prober.withRetry(fn, times) called on its own
CallWithRetry ==
  /\ probe.pc = "idle"
  /\ retry.pc = "idle"
  /\ \E times \in RetryArgs : retry' = withRetry("direct", times)
  /\ UNCHANGED <<retryTimes, probe, race, deadline, elapsed, reconVars, cacheVars,
               toolVars, partialVars, matchVars>>

\* the external tool exits with code 0 and parseable output
AttemptSucceeds ==
  /\ retry.pc = "attempt"
  /\ retry' = AfterSuccess(retry)
  /\ UNCHANGED <<retryTimes, probe, race, deadline, elapsed, reconVars, cacheVars,
               toolVars, partialVars, matchVars>>

\* the external tool fails: fn rejects with an Error
AttemptFails ==
  /\ retry.pc = "attempt"
  /\ \E e \in Errors : retry' = AfterFailure(retry, e)
  /\ UNCHANGED <<retryTimes, probe, race, deadline, elapsed, reconVars, cacheVars,
               toolVars, partialVars, matchVars>>

DelayElapsed ==
  /\ retry.pc = "delay"
  /\ retry.timer = 0
  /\ retry' = AfterDelay(retry)
  /\ UNCHANGED <<retryTimes, probe, race, deadline, elapsed, reconVars, cacheVars,
               toolVars, partialVars, matchVars>>

RetrySettled == retry.owner = "probe" /\ retry.pc \in {"resolved", "rejected"}

RaceFollowsRetry ==
  /\ race.state = "pending"
  /\ RetrySettled
  /\ race' = RaceOnRetry(race, retry, elapsed)
  /\ UNCHANGED <<retryTimes, probe, deadline, retry, elapsed, reconVars, cacheVars,
               toolVars, partialVars, matchVars>>

DeadlineFires ==
  /\ deadline = 0
  /\ deadline' = NoTimer
  /\ race' = RaceOnTimer(race, elapsed)
  /\ UNCHANGED <<retryTimes, probe, retry, elapsed, reconVars, cacheVars,
               toolVars, partialVars, matchVars>>

\* const result = await probeWithProtection() resolved: probeData is built
\* and await ProbeCache.set(filepath, probeData) follows, which resolves to
\* false at once when caching is off
ProbeGotResult ==
  /\ probe.pc = "protected"
  /\ race.state = "resolved"
  /\ IF cacheEnabled
       THEN probe' = [probe EXCEPT !.pc = "cacheSet"]
       ELSE probe' = [pc |-> "returned", result |-> DataResult(race.value)]
  /\ UNCHANGED <<retryTimes, race, deadline, retry, elapsed, reconVars, cacheVars,
               toolVars, partialVars, matchVars>>

\* catch (error): error.message is read, which throws when error is undefined
ProbeCaught ==
  /\ probe.pc = "protected"
  /\ race.state = "rejected"
  /\ IF race.value = Undefined
       THEN probe' = [pc |-> "threw", result |-> ErrorResult(TypeError)]
       ELSE probe' = [pc |-> "returned", result |-> ErrorResult(race.value)]
  /\ UNCHANGED <<retryTimes, race, deadline, retry, elapsed, reconVars, cacheVars,
               toolVars, partialVars, matchVars>>

\* ProbeCache.set stores probeData and resolves: return probeData
CacheSetDone ==
  /\ probe.pc = "cacheSet"
  /\ lru' = IF cacheEnabled
              THEN LruSet(lru, ProbedKey, race.value).entries
              ELSE lru
  /\ probe' = [pc |-> "returned", result |-> DataResult(race.value)]
  /\ UNCHANGED <<retryTimes, race, deadline, retry, elapsed>>
  /\ UNCHANGED <<cacheEnabled, disk, stats, call, lastCall, touched, nCalls>>
  /\ UNCHANGED <<reconVars, toolVars, partialVars, matchVars>>

Urgent ==
  \/ deadline = 0
  \/ retry.pc = "delay" /\ retry.timer = 0
  \/ race.state = "pending" /\ RetrySettled
  \/ probe.pc = "protected" /\ race.state \in {"resolved", "rejected"}

\* one second passes
ProberTick ==
  /\ ~Urgent
  /\ deadline' = IF deadline > 0 THEN deadline - 1 ELSE deadline
  /\ retry' = IF retry.pc = "delay" THEN [retry EXCEPT !.timer = @ - 1] ELSE retry
  /\ elapsed' = IF probe.pc \in {"protected", "cacheSet"} /\ elapsed <= PROBE_TIMEOUT
                  THEN elapsed + 1 ELSE elapsed
  /\ <<deadline', retry', elapsed'>> # <<deadline, retry, elapsed>>
  /\ UNCHANGED <<retryTimes, probe, race, reconVars, cacheVars,
               toolVars, partialVars, matchVars>>

ProberNext ==
  \/ ProbeCall
  \/ CacheHit
  \/ CacheMiss
  \/ CallWithRetry
  \/ AttemptSucceeds
  \/ AttemptFails
  \/ DelayElapsed
  \/ RaceFollowsRetry
  \/ DeadlineFires
  \/ ProbeGotResult
  \/ ProbeCaught
  \/ CacheSetDone
  \/ ProberTick

----------------------------------------------------------------------------
(* The external tool.  ffprobe runs as a child process: it writes to stdout *)
(* and stderr in chunks, exits with a code (with none when a signal kills   *)
(* it) or fails to start, and is closed.  Four functions run it: doProbe    *)
(* (spawn, with its own handlers), runFFProbe (execFile), probeMinimal and  *)
(* probeFull (exec).                                                        *)

MaxChunks == 2
MaxStreams == 2

\* let exitCode = null
NoCode == -1
ExitCodes == {0, 1, NoCode}

\* "{" stands for the first part of the JSON document the tool prints, "}"
\* for the rest of it
Chunks == {"{", "}"}

CodecTypes == {"audio", "video", "subtitle"}
StreamLists == UNION {[1..n -> CodecTypes] : n \in 0..MaxStreams}

\* what the tool has to say about a file: whether there is a format section,
\* and the codec_type of each stream
RawDocs == {[format |-> f, streams |-> s] : f \in BOOLEAN, s \in StreamLists}

\* JSON.parse(stdout): the document when all of it has arrived and nothing
\* else, a SyntaxError otherwise (for the empty string as well)
JsonParse(stdout, doc) ==
  IF stdout = <<"{", "}">> THEN [ok |-> TRUE, value |-> doc]
  ELSE [ok |-> FALSE, value |-> doc]

\* streams.find(s => s.codec_type === type), as found or not
HasStream(streams, type) == \E j \in 1..Len(streams) : streams[j] = type

\* an Error with a message
Rejection(message) ==
  [kind |-> "error", message |-> message, format |-> FALSE,
   audio_stream |-> FALSE, video_stream |-> FALSE, tags |-> ""]

\* a result object: format is FALSE for undefined, audio_stream and
\* video_stream are FALSE for null
Resolution(format, streams, tags) ==
  [kind |-> "data", message |-> "", format |-> format,
   audio_stream |-> HasStream(streams, "audio"),
   video_stream |-> HasStream(streams, "video"), tags |-> tags]

\* Prober.parseProbeData (partial-read variant)
parseProbeData(rawData) ==
  IF ~rawData.format THEN Rejection("Invalid ffprobe output")
  ELSE IF ~HasStream(rawData.streams, "audio")
    THEN Rejection("No audio stream found")
  ELSE Resolution(rawData.format, rawData.streams, "parseTags")

\* Prober.transformMinimalData: const format = data.format || {}, const
\* streams = data.streams || [], tags: {}
transformMinimalData(data) == Resolution(data.format, data.streams, "{}")

\* Prober.transformFullData
transformFullData(data) == Resolution(data.format, data.streams, "transformTags")

\* execFile and exec hand an error to their callback when the child could not
\* be started, exited with a code other than 0 or was killed
ExecFails(c) == c.failed \/ c.exitCode # 0

\* Prober.runFFProbe, once the child is closed
runFFProbe(c) ==
  IF ExecFails(c) THEN Rejection("FFProbe failed: Command failed")
  ELSE LET parsed == JsonParse(c.stdout, c.doc)
       IN IF ~parsed.ok THEN Rejection("FFProbe failed: Unexpected end of JSON input")
          ELSE LET data == parseProbeData(parsed.value)
               IN IF data.kind = "error"
                    THEN Rejection("FFProbe failed: " \o data.message)
                    ELSE data

\* Prober.probeMinimal, once the child is closed
probeMinimal(c) ==
  IF ExecFails(c) THEN Rejection("ffprobe minimal failed: Command failed")
  ELSE LET parsed == JsonParse(c.stdout, c.doc)
       IN IF ~parsed.ok
            THEN Rejection("ffprobe minimal failed: Unexpected end of JSON input")
            ELSE transformMinimalData(parsed.value)

\* Prober.probeFull, once the child is closed
probeFull(c) ==
  IF ExecFails(c) THEN Rejection("ffprobe full failed: Command failed")
  ELSE LET parsed == JsonParse(c.stdout, c.doc)
       IN IF ~parsed.ok
            THEN Rejection("ffprobe full failed: Unexpected end of JSON input")
            ELSE transformFullData(parsed.value)

\* doProbe: proc.on('close', ...)
doProbe(c) ==
  IF c.exitCode # 0 /\ c.stderr # <<>>
    THEN Rejection("ffprobe exited with code")
  ELSE LET parsed == JsonParse(c.stdout, c.doc)
       IN IF parsed.ok
            THEN Resolution(parsed.value.format, parsed.value.streams, "raw")
            ELSE Rejection("Failed to parse ffprobe output")

ToolFns == {"doProbe", "runFFProbe", "probeMinimal", "probeFull"}

OnClose(fn, c) ==
  CASE fn = "doProbe" -> doProbe(c)
    [] fn = "runFFProbe" -> runFFProbe(c)
    [] fn = "probeMinimal" -> probeMinimal(c)
    [] fn = "probeFull" -> probeFull(c)

NoChild ==
  [state |-> "none", doc |-> [format |-> FALSE, streams |-> <<>>],
   stdout |-> <<>>, stderr |-> <<>>, exitCode |-> NoCode, failed |-> FALSE]

\* settled: how often resolve or reject has been called
NoToolCall ==
  [fn |-> "none", state |-> "none", outcome |-> Rejection(""), settled |-> 0]

\* resolve(value) or reject(error): the first call settles the promise, a
\* later one changes nothing
Settle(p, outcome) ==
  IF p.state = "pending"
    THEN [p EXCEPT !.state = IF outcome.kind = "data" THEN "resolved"
                             ELSE "rejected",
                   !.outcome = outcome,
                   !.settled = @ + 1]
    ELSE [p EXCEPT !.settled = @ + 1]

ToolIdle ==
  /\ child = NoChild
  /\ toolCall = NoToolCall

\* one of the four functions is called on a file and spawns the child
ToolSpawn ==
  /\ child.state = "none"
  /\ \E fn \in ToolFns : \E doc \in RawDocs :
       /\ child' = [NoChild EXCEPT !.state = "running", !.doc = doc]
       /\ toolCall' = [NoToolCall EXCEPT !.fn = fn, !.state = "pending"]
  /\ UNCHANGED <<reconVars, cacheVars, proberVars, partialVars, matchVars>>

\* proc.stdout.on('data', ...)
ChildWrites ==
  /\ child.state \in {"running", "exited"}
  /\ ~child.failed
  /\ Len(child.stdout) < MaxChunks
  /\ \E chunk \in Chunks : child' = [child EXCEPT !.stdout = Append(@, chunk)]
  /\ UNCHANGED <<toolCall, reconVars, cacheVars, proberVars, partialVars, matchVars>>

\* proc.stderr.on('data', ...)
ChildComplains ==
  /\ child.state \in {"running", "exited"}
  /\ ~child.failed
  /\ Len(child.stderr) < MaxChunks
  /\ child' = [child EXCEPT !.stderr = Append(@, "err")]
  /\ UNCHANGED <<toolCall, reconVars, cacheVars, proberVars, partialVars, matchVars>>

\* proc.on('exit', code => { exitCode = code })
ChildExits ==
  /\ child.state = "running"
  /\ \E code \in ExitCodes :
       child' = [child EXCEPT !.state = "exited", !.exitCode = code]
  /\ UNCHANGED <<toolCall, reconVars, cacheVars, proberVars, partialVars, matchVars>>

\* proc.on('error', err => { reject(err) }): the tool could not be started;
\* no 'exit' event follows, 'close' does
ChildFailsToStart ==
  /\ child.state = "running"
  /\ child.stdout = <<>> /\ child.stderr = <<>>
  /\ child' = [child EXCEPT !.state = "exited", !.failed = TRUE]
  /\ toolCall' = Settle(toolCall, Rejection("spawn ffprobe ENOENT"))
  /\ UNCHANGED <<reconVars, cacheVars, proberVars, partialVars, matchVars>>

\* proc.on('close', ...); execFile and exec call back once, so their close
\* after a failed start does nothing
ChildCloses ==
  /\ child.state = "exited"
  /\ child' = [child EXCEPT !.state = "closed"]
  /\ toolCall' = IF child.failed /\ toolCall.fn # "doProbe" THEN toolCall
                 ELSE Settle(toolCall, OnClose(toolCall.fn, child))
  /\ UNCHANGED <<reconVars, cacheVars, proberVars, partialVars, matchVars>>

ToolNext ==
  \/ ToolSpawn
  \/ ChildWrites
  \/ ChildComplains
  \/ ChildExits
  \/ ChildFailsToStart
  \/ ChildCloses

----------------------------------------------------------------------------
(* Prober, partial-read variant: probe, readPartialFile, cleanupTempFile.   *)
(* The scan driver runs several calls of probe at once; each call is a      *)
(* chain of awaits, and the steps of different calls interleave.  A file    *)
(* does not change while it is probed.                                      *)

MaxMs == 1
MaxProbes == 2

ProbeIds == 1..MaxProbes

\* Path.basename(filePath): "p" and "q" are two files called book.mp3 in
\* different folders, "r" is a file called song.mp3
Basename(path) == IF path = "r" THEN "song.mp3" ELSE "book.mp3"

\* Path.join(this.TempProbeDir, `${Path.basename(filePath)}_${Date.now()}.tmp`)
TempFileName(path, now) == [base |-> Basename(path), stamp |-> now]

TempNames ==
  {TempFileName(path, now) : path \in CachePaths, now \in 0..MaxMs}

\* let tempFile = null
NoTemp == [base |-> "", stamp |-> 0]

NoFile == [holds |-> "absent", creator |-> 0]

\* the reference to the object made as number id
RefOf(id) == "object " \o ToString(id)

NoRef == "no object"

NoResult == [kind |-> "none", ref |-> NoRef, message |-> ""]

IdlePartial ==
  [pc |-> "idle", filePath |-> "p", name |-> NoTemp, tempFile |-> NoTemp,
   made |-> NoRef, result |-> NoResult]

\* "r" is not a media file, or cannot be read at all, or is a media file
\* on which fs.stat fails while fs.open works
PartialDisks ==
  { [InitialDisk EXCEPT !["r"].head = "noise"],
    [InitialDisk EXCEPT !["r"].readable = FALSE, !["r"].statable = FALSE],
    [InitialDisk EXCEPT !["r"].statable = FALSE] }

\* what the tool does with a file: a file that is missing, cut short or not
\* a media file makes it exit with code 1 and a message on stderr; a media
\* file makes it print its document and exit with code 0
ToolRunOn(content) ==
  IF content \in {"absent", "partial", "noise"}
    THEN [NoChild EXCEPT !.state = "closed", !.stderr = <<"err">>, !.exitCode = 1]
    ELSE [NoChild EXCEPT !.state = "closed",
                         !.doc = [format |-> TRUE, streams |-> <<"audio">>],
                         !.stdout = <<"{", "}">>, !.exitCode = 0]

\* what a reader of the source file finds
SourceContent(path) ==
  IF disk[path].readable THEN disk[path].head ELSE "absent"

\* the result object runFFProbe builds from a file with this content
ObjectFor(content) ==
  [made |-> "probe of " \o content, data |-> "probe of " \o content]

\* the object a reference leads to
Deref(ref) == objects[CHOOSE id \in 1..Len(objects) : RefOf(id) = ref]

\* the cache key of a file as ProbeCache.get and ProbeCache.set compute it
KeyOfPath(path) == getCacheKey(disk[path], getFileSize(disk[path]))

PartialIdle ==
  /\ usePartialRead = TRUE
  /\ nowMs = 0
  /\ tempDir = [n \in TempNames |-> NoFile]
  /\ objects = <<>>
  /\ probes = [c \in ProbeIds |-> IdlePartial]

PartialInit ==
  /\ usePartialRead \in BOOLEAN
  /\ nowMs = 0
  /\ tempDir = [n \in TempNames |-> NoFile]
  /\ objects = <<>>
  /\ probes = [c \in ProbeIds |-> IdlePartial]
  /\ cacheEnabled \in BOOLEAN
  /\ disk \in PartialDisks
  /\ lru = <<>>
  /\ stats = [hits |-> 0, misses |-> 0, errors |-> 0]
  /\ call = IdleCall
  /\ lastCall = NoCall
  /\ touched = <<>>
  /\ nCalls = 0

\* lines 395 to 405, up to the first await of readPartialFile: the name of
\* the temporary file is made from the clock
AfterCache(pr) ==
  IF usePartialRead
    THEN [pr EXCEPT !.pc = "stat", !.name = TempFileName(pr.filePath, nowMs)]
    ELSE [pr EXCEPT !.pc = "ffprobe"]

\* return, by way of the finally block
Finally(pr, result) ==
  [pr EXCEPT !.result = result,
             !.pc = IF pr.tempFile # NoTemp THEN "cleanup" ELSE "returned"]

\* probe(filePath) is called
ProbePartial(c) ==
  /\ probes[c].pc = "idle"
  /\ \A b \in 1..(c - 1) : probes[b].pc # "idle"
  /\ \E path \in CachePaths :
       LET pr == [probes[c] EXCEPT !.filePath = path]
       IN probes' = [probes EXCEPT ![c] =
            IF cacheEnabled THEN [pr EXCEPT !.pc = "get"] ELSE AfterCache(pr)]
  /\ UNCHANGED <<usePartialRead, nowMs, tempDir, objects>>
  /\ UNCHANGED <<reconVars, cacheVars, proberVars, toolVars, matchVars>>

\* const cached = await ProbeCache.get(filePath); if (cached) return cached
PartialCacheGet(c) ==
  /\ probes[c].pc = "get"
  /\ LET key == KeyOfPath(probes[c].filePath)
         got == LruGet(lru, key)
     IN IF key = NoKey
          THEN /\ stats' = [stats EXCEPT !.errors = @ + 1]
               /\ lru' = lru
               /\ probes' = [probes EXCEPT ![c] = AfterCache(@)]
          ELSE /\ lru' = got.entries
               /\ IF got.value # Null
                    THEN /\ stats' = [stats EXCEPT !.hits = @ + 1]
                         /\ probes' = [probes EXCEPT ![c] =
                              [@ EXCEPT !.pc = "returned",
                                        !.result = [kind |-> "data",
                                                    ref |-> got.value,
                                                    message |-> ""]]]
                    ELSE /\ stats' = [stats EXCEPT !.misses = @ + 1]
                         /\ probes' = [probes EXCEPT ![c] = AfterCache(@)]
  /\ UNCHANGED <<usePartialRead, nowMs, tempDir, objects>>
  /\ UNCHANGED <<cacheEnabled, disk, call, lastCall, touched, nCalls>>
  /\ UNCHANGED <<reconVars, proberVars, toolVars, matchVars>>

\* readPartialFile: await fs.stat(filePath), then the two streams are made;
\* createWriteStream creates the temporary file, or empties the one that is
\* there.  When stat fails, probe falls back to the file itself.
ReadPartialFileOpens(c) ==
  /\ probes[c].pc = "stat"
  /\ LET pr == probes[c]
     IN IF disk[pr.filePath].statable
          THEN /\ tempDir' = [tempDir EXCEPT ![pr.name] =
                    [holds |-> "partial",
                     creator |-> IF @.holds = "absent" THEN c ELSE @.creator]]
               /\ probes' = [probes EXCEPT ![c].pc = "copy"]
          ELSE /\ tempDir' = tempDir
               /\ probes' = [probes EXCEPT ![c].pc = "ffprobe"]
  /\ UNCHANGED <<usePartialRead, nowMs, objects>>
  /\ UNCHANGED <<reconVars, cacheVars, proberVars, toolVars, matchVars>>

\* await pipelineAsync(readStream, writeStream) resolves: the file the write
\* stream opened holds the head of the source; when it has been unlinked in
\* the meantime, no file carries the name.  return tempFile
ReadPartialFileDone(c) ==
  /\ probes[c].pc = "copy"
  /\ LET pr == probes[c]
     IN /\ tempDir' = IF tempDir[pr.name].holds = "absent" THEN tempDir
                      ELSE [tempDir EXCEPT ![pr.name].holds =
                              SourceContent(pr.filePath)]
        /\ probes' = [probes EXCEPT ![c].pc = "ffprobe", ![c].tempFile = pr.name]
  /\ UNCHANGED <<usePartialRead, nowMs, objects>>
  /\ UNCHANGED <<reconVars, cacheVars, proberVars, toolVars, matchVars>>

\* the pipeline fails (the mount stops answering): readPartialFile throws,
\* probe catches, tempFile = null, targetFile = filePath
ReadPartialFileFails(c) ==
  /\ probes[c].pc = "copy"
  /\ probes' = [probes EXCEPT ![c].pc = "ffprobe", ![c].tempFile = NoTemp]
  /\ UNCHANGED <<usePartialRead, nowMs, tempDir, objects>>
  /\ UNCHANGED <<reconVars, cacheVars, proberVars, toolVars, matchVars>>

\* mutant: the tool is run on the temporary file whether or not the copy
\* was made
TargetContent_TempOnly(pr) ==
  IF pr.name # NoTemp THEN tempDir[pr.name].holds
  ELSE SourceContent(pr.filePath)

\* what the tool finds at targetFile: the temporary file when readPartialFile
\* returned one, the file itself otherwise
TargetContent(pr) ==
  IF pr.tempFile # NoTemp THEN tempDir[pr.tempFile].holds
  ELSE SourceContent(pr.filePath)

\* const result = await this.runFFProbe(targetFile), then either the cache
\* is written, or the result is returned, or the error is caught
RunFFProbe(c) ==
  /\ probes[c].pc = "ffprobe"
  /\ LET pr == probes[c]
         content == TargetContent(pr)
         outcome == runFFProbe(ToolRunOn(content))
         id == RefOf(Len(objects) + 1)
     IN IF outcome.kind = "data"
          THEN /\ objects' = Append(objects, ObjectFor(content))
               /\ probes' = [probes EXCEPT ![c] =
                    IF cacheEnabled
                      THEN [pr EXCEPT !.pc = "set", !.made = id]
                      ELSE Finally([pr EXCEPT !.made = id],
                                   [kind |-> "data", ref |-> id, message |-> ""])]
          ELSE /\ objects' = objects
               /\ probes' = [probes EXCEPT ![c] =
                    Finally(pr, [kind |-> "error", ref |-> NoRef,
                                 message |-> outcome.message])]
  /\ UNCHANGED <<usePartialRead, nowMs, tempDir>>
  /\ UNCHANGED <<reconVars, cacheVars, proberVars, toolVars, matchVars>>

\* await ProbeCache.set(filePath, result); return result
PartialCacheSet(c) ==
  /\ probes[c].pc = "set"
  /\ LET pr == probes[c]
         key == KeyOfPath(pr.filePath)
     IN /\ IF key = NoKey
             THEN /\ stats' = [stats EXCEPT !.errors = @ + 1]
                  /\ lru' = lru
             ELSE /\ stats' = stats
                  /\ lru' = LruSet(lru, key, pr.made).entries
        /\ probes' = [probes EXCEPT ![c] =
             Finally(pr, [kind |-> "data", ref |-> pr.made, message |-> ""])]
  /\ UNCHANGED <<usePartialRead, nowMs, tempDir, objects>>
  /\ UNCHANGED <<cacheEnabled, disk, call, lastCall, touched, nCalls>>
  /\ UNCHANGED <<reconVars, proberVars, toolVars, matchVars>>

\* finally: await this.cleanupTempFile(tempFile), fs.unlink succeeding or
\* finding no file
CleanupTempFile(c) ==
  /\ probes[c].pc = "cleanup"
  /\ tempDir' = [tempDir EXCEPT ![probes[c].tempFile] = NoFile]
  /\ probes' = [probes EXCEPT ![c].pc = "returned"]
  /\ UNCHANGED <<usePartialRead, nowMs, objects>>
  /\ UNCHANGED <<reconVars, cacheVars, proberVars, toolVars, matchVars>>

\* the caller of a probe that returned data writes to the object it was given
CallerEdits(c) ==
  /\ probes[c].pc = "returned"
  /\ probes[c].result.kind = "data"
  /\ Deref(probes[c].result.ref).data # "edited"
  /\ objects' = [id \in 1..Len(objects) |->
       IF RefOf(id) = probes[c].result.ref
         THEN [objects[id] EXCEPT !.data = "edited"]
         ELSE objects[id]]
  /\ UNCHANGED <<usePartialRead, nowMs, tempDir, probes>>
  /\ UNCHANGED <<reconVars, cacheVars, proberVars, toolVars, matchVars>>

\* a millisecond passes
ClockTick ==
  /\ nowMs < MaxMs
  /\ nowMs' = nowMs + 1
  /\ UNCHANGED <<usePartialRead, tempDir, objects, probes>>
  /\ UNCHANGED <<reconVars, cacheVars, proberVars, toolVars, matchVars>>

PartialNext ==
  \/ \E c \in ProbeIds : ProbePartial(c)
  \/ \E c \in ProbeIds : PartialCacheGet(c)
  \/ \E c \in ProbeIds : ReadPartialFileOpens(c)
  \/ \E c \in ProbeIds : ReadPartialFileDone(c)
  \/ \E c \in ProbeIds : ReadPartialFileFails(c)
  \/ \E c \in ProbeIds : RunFFProbe(c)
  \/ \E c \in ProbeIds : PartialCacheSet(c)
  \/ \E c \in ProbeIds : CleanupTempFile(c)
  \/ \E c \in ProbeIds : CallerEdits(c)
  \/ ClockTick

----------------------------------------------------------------------------
(* Reconciler state machine: the file system changes, the scanner calls     *)
(* checkLibraryItemData with what it finds.                                 *)

\* "C" stands for a file with an e-book extension
IsEBookPath(p) == p = "C"

NewFile(p, ino, size) ==
  [ino |-> ino, path |-> p, relPath |-> RelPathOf(p), size |-> size,
   mtimeMs |-> 1, ctimeMs |-> 1, updatedAt |-> 0,
   isEBookFile |-> IsEBookPath(p), isSupplementary |-> FALSE]

\* the record the scanner persisted when it first saw the item
RecordOf(item) ==
  [ino |-> item.ino, libraryFolderId |-> item.libraryFolderId,
   path |-> item.path, relPath |-> item.relPath, isFile |-> item.isFile,
   mtime |-> item.mtimeMs, ctime |-> item.ctimeMs,
   birthtime |-> item.birthtimeMs, isMissing |-> FALSE,
   size |-> SumSizes(item.libraryFiles), lastScan |-> 0,
   lastScanVersion |-> "v1", saves |-> 0,
   libraryFiles |-> item.libraryFiles]

NoReport ==
  [hasChanges |-> FALSE, hasPathChange |-> FALSE, libraryFilesAdded |-> <<>>,
   libraryFilesRemoved |-> <<>>, libraryFilesModified |-> <<>>,
   returned |-> FALSE]

InitialFiles ==
  { <<>>,
    <<NewFile("A", 1, 1), NewFile("B", 2, 2)>> }

ReconInit ==
  /\ ignoreMeta \in BOOLEAN
  /\ \E files \in InitialFiles :
       fs = [ino |-> 1, libraryFolderId |-> "f1", path |-> "/lib/x",
             relPath |-> "x", isFile |-> FALSE, mtimeMs |-> 1, ctimeMs |-> 1,
             birthtimeMs |-> 1, libraryFiles |-> files]
  /\ existing = RecordOf(fs)
  /\ before = existing
  /\ report = NoReport
  /\ phase = "idle"
  /\ scanNo = 0
  /\ fsEvents = 0

\* a change on disk invalidates the report of the previous call
FsChanged(newFs) ==
  /\ fsEvents < MaxFsEvents
  /\ newFs # fs
  /\ fs' = newFs
  /\ fsEvents' = fsEvents + 1
  /\ phase' = "idle"
  /\ report' = NoReport
  /\ before' = existing
  /\ UNCHANGED <<ignoreMeta, existing, scanNo>>
  /\ UNCHANGED <<cacheVars, proberVars, toolVars, partialVars, matchVars>>

TouchItem ==
  \E key \in {"mtimeMs", "ctimeMs", "birthtimeMs"} : \E t \in Times :
    FsChanged([fs EXCEPT ![key] = t])

MoveItem ==
  \/ \E v \in Inos : FsChanged([fs EXCEPT !.ino = v])
  \/ \E v \in FolderIds : FsChanged([fs EXCEPT !.libraryFolderId = v])
  \/ \E v \in ItemPaths : FsChanged([fs EXCEPT !.path = v])
  \/ \E v \in ItemRelPaths : FsChanged([fs EXCEPT !.relPath = v])
  \/ \E v \in BOOLEAN : FsChanged([fs EXCEPT !.isFile = v])

TouchFile ==
  \E i \in 1..Len(fs.libraryFiles) :
    \/ \E t \in Times : FsChanged([fs EXCEPT !.libraryFiles[i].mtimeMs = t])
    \/ \E t \in Times : FsChanged([fs EXCEPT !.libraryFiles[i].ctimeMs = t])
    \/ \E s \in Sizes : FsChanged([fs EXCEPT !.libraryFiles[i].size = s])
    \/ \E v \in Inos : FsChanged([fs EXCEPT !.libraryFiles[i].ino = v])

PathsOnDisk == {fs.libraryFiles[j].path : j \in 1..Len(fs.libraryFiles)}

\* the scanner lists the files of a folder in name order
RECURSIVE InsertByPath(_, _)
InsertByPath(files, f) ==
  IF files = <<>> THEN <<f>>
  ELSE IF f.path \in {p \in FilePaths : PathRank(p) < PathRank(Head(files).path)}
    THEN <<f>> \o files
  ELSE <<Head(files)>> \o InsertByPath(Tail(files), f)

WithoutFile(files, i) == SubSeq(files, 1, i - 1) \o SubSeq(files, i + 1, Len(files))

RenameFile ==
  \E i \in 1..Len(fs.libraryFiles) : \E p \in FilePaths \ PathsOnDisk :
    FsChanged([fs EXCEPT !.libraryFiles =
      InsertByPath(WithoutFile(@, i),
                   [@[i] EXCEPT !.path = p, !.relPath = RelPathOf(p),
                                !.isEBookFile = IsEBookPath(p)])])

RemoveFile ==
  \E i \in 1..Len(fs.libraryFiles) :
    FsChanged([fs EXCEPT !.libraryFiles = WithoutFile(@, i)])

\* a new file, or a hard link to an inode already in use
AddFile ==
  /\ Len(fs.libraryFiles) < MaxFiles
  /\ \E p \in FilePaths \ PathsOnDisk : \E ino \in Inos :
       FsChanged([fs EXCEPT !.libraryFiles = InsertByPath(@, NewFile(p, ino, 1))])

\* a scan pass that does not find the item: the scan driver flags the record
MarkMissing ==
  /\ fsEvents < MaxFsEvents
  /\ ~existing.isMissing
  /\ existing' = [existing EXCEPT !.isMissing = TRUE]
  /\ before' = existing'
  /\ fsEvents' = fsEvents + 1
  /\ phase' = "idle"
  /\ report' = NoReport
  /\ UNCHANGED <<ignoreMeta, fs, scanNo>>
  /\ UNCHANGED <<cacheVars, proberVars, toolVars, partialVars, matchVars>>

Scan ==
  /\ scanNo < MaxScans
  /\ LET r == checkLibraryItemData(existing, fs, ignoreMeta, scanNo + 1)
     IN /\ existing' = r.item
        /\ report' = r.report
  /\ before' = existing
  /\ phase' = "scanned"
  /\ scanNo' = scanNo + 1
  /\ UNCHANGED <<ignoreMeta, fs, fsEvents>>
  /\ UNCHANGED <<cacheVars, proberVars, toolVars, partialVars, matchVars>>

ReconNext ==
  \/ TouchItem
  \/ MoveItem
  \/ TouchFile
  \/ RenameFile
  \/ RemoveFile
  \/ AddFile
  \/ MarkMissing
  \/ Scan

InitRecon ==
  ReconInit /\ CacheIdle /\ ProberIdle /\ ToolIdle /\ PartialIdle /\ MatchIdle

SpecRecon == InitRecon /\ [][ReconNext]_vars

ReconIdle ==
  /\ ignoreMeta = FALSE
  /\ fs = [ino |-> 1, libraryFolderId |-> "f1", path |-> "/lib/x",
           relPath |-> "x", isFile |-> FALSE, mtimeMs |-> 1, ctimeMs |-> 1,
           birthtimeMs |-> 1, libraryFiles |-> <<>>]
  /\ existing = RecordOf(fs)
  /\ before = existing
  /\ report = NoReport
  /\ phase = "idle"
  /\ scanNo = 0
  /\ fsEvents = 0

InitCache ==
  CacheInit /\ ReconIdle /\ ProberIdle /\ ToolIdle /\ PartialIdle /\ MatchIdle

SpecCache == InitCache /\ [][CacheNext]_vars

InitProber ==
  ProberInit /\ ProberCacheInit /\ ReconIdle /\ ToolIdle /\ PartialIdle /\ MatchIdle

SpecProber == InitProber /\ [][ProberNext]_vars

InitTool ==
  ToolIdle /\ ReconIdle /\ CacheIdle /\ ProberIdle /\ PartialIdle /\ MatchIdle

SpecTool == InitTool /\ [][ToolNext]_vars

InitPartial ==
  PartialInit /\ ReconIdle /\ ProberIdle /\ ToolIdle /\ MatchIdle

SpecPartial == InitPartial /\ [][PartialNext]_vars

\* the partial-read variant of probe with a file that is rewritten while
\* calls are in flight
RewriteNext ==
  \/ \E c \in ProbeIds : ProbePartial(c)
  \/ \E c \in ProbeIds : PartialCacheGet(c)
  \/ \E c \in ProbeIds : ReadPartialFileOpens(c)
  \/ \E c \in ProbeIds : ReadPartialFileDone(c)
  \/ \E c \in ProbeIds : ReadPartialFileFails(c)
  \/ \E c \in ProbeIds : RunFFProbe(c)
  \/ \E c \in ProbeIds : PartialCacheSet(c)
  \/ \E c \in ProbeIds : CleanupTempFile(c)
  \/ \E c \in ProbeIds : CallerEdits(c)
  \/ ClockTick
  \/ ChangeFile

SpecRewrite == InitPartial /\ [][RewriteNext]_vars

InitMatch ==
  MatchInit /\ ReconIdle /\ CacheIdle /\ ProberIdle /\ ToolIdle /\ PartialIdle

SpecMatch == InitMatch /\ [][MatchNext]_vars

----------------------------------------------------------------------------
(* Properties of the reconciler (SpecRecon).  In a state with              *)
(* phase = "scanned", before is the record the last call started from, fs  *)
(* the candidate it was given, existing the record it left and report its  *)
(* change report.                                                          *)

Range(seq) == {seq[j] : j \in 1..Len(seq)}

Scanned == phase = "scanned"

ListsEmpty ==
  /\ report.libraryFilesAdded = <<>>
  /\ report.libraryFilesRemoved = <<>>
  /\ report.libraryFilesModified = <<>>

SameItemKeys(ex, c) ==
  /\ ex.libraryFolderId = c.libraryFolderId
  /\ ex.path = c.path
  /\ ex.relPath = c.relPath
  /\ ex.isFile = c.isFile

SameItemTimes(ex, c) ==
  /\ ex.mtime = c.mtimeMs
  /\ ex.ctime = c.ctimeMs
  /\ ex.birthtime = c.birthtimeMs

SameContent(e, c) ==
  /\ e.path = c.path
  /\ e.relPath = c.relPath
  /\ e.size = c.size

SameStamps(e, c) ==
  /\ e.ino = c.ino
  /\ e.mtimeMs = c.mtimeMs
  /\ e.ctimeMs = c.ctimeMs

\* the two file lists hold the same paths, once each
SamePaths(exFiles, cFiles) ==
  /\ Len(exFiles) = Len(cFiles)
  /\ \A e \in Range(exFiles) : \E c \in Range(cFiles) : e.path = c.path
  /\ \A c \in Range(cFiles) : \E e \in Range(exFiles) : e.path = c.path

\* ... and the files at the same path have the same path, relPath and size
SameContents(exFiles, cFiles) ==
  /\ SamePaths(exFiles, cFiles)
  /\ \A e \in Range(exFiles) : \A c \in Range(cFiles) :
       e.path = c.path => SameContent(e, c)

\* ... and the same inode, mtimeMs and ctimeMs
SameStampsAll(exFiles, cFiles) ==
  \A e \in Range(exFiles) : \A c \in Range(cFiles) :
    e.path = c.path => SameStamps(e, c)

IdenticalRecords ==
  /\ before.ino = fs.ino
  /\ SameItemKeys(before, fs)
  /\ SameItemTimes(before, fs)
  /\ SameContents(before.libraryFiles, fs.libraryFiles)
  /\ SameStampsAll(before.libraryFiles, fs.libraryFiles)
  /\ ~before.isMissing

\* C1: under Strict policy a call whose candidate is identical to the
\* existing record (item fields, files, every metadata field), the record not
\* being flagged missing, returns false with hasChanges = false,
\* hasPathChange = false and empty added, removed and modified lists.
C1_StrictNoOp ==
  (Scanned /\ ~ignoreMeta /\ IdenticalRecords) =>
    /\ ~report.returned
    /\ ~report.hasChanges
    /\ ~report.hasPathChange
    /\ ListsEmpty

\* witness of C1: a second Strict call on a two-file item whose first call
\* adopted changes: record and candidate are now identical
C1_Witness ==
  /\ Scanned /\ ~ignoreMeta /\ IdenticalRecords
  /\ scanNo = 2
  /\ before.lastScan = 1
  /\ Len(before.libraryFiles) = 2

\* existing and candidate differ in nothing but timestamps and inodes, and in
\* at least one of those
OnlyStampsDiffer ==
  /\ SameItemKeys(before, fs)
  /\ ~before.isMissing
  /\ SameContents(before.libraryFiles, fs.libraryFiles)
  /\ \/ before.ino # fs.ino
     \/ ~SameItemTimes(before, fs)
     \/ ~SameStampsAll(before.libraryFiles, fs.libraryFiles)

StampsSynced ==
  /\ SameItemTimes(existing, fs)
  /\ \A e \in Range(existing.libraryFiles) : \A c \in Range(fs.libraryFiles) :
       e.path = c.path => (e.mtimeMs = c.mtimeMs /\ e.ctimeMs = c.ctimeMs)

\* C2: when existing and candidate differ only in timestamps (item mtime,
\* ctime, birthtime; file mtimeMs, ctimeMs) and/or inode (the candidate may
\* have none), Tolerant reports hasChanges = false with empty lists and the
\* stored timestamps equal the candidate's; Strict reports hasChanges = true.
C2_TimestampDrift ==
  (Scanned /\ OnlyStampsDiffer) =>
    IF ignoreMeta
      THEN ~report.hasChanges /\ ~report.returned /\ ListsEmpty /\ StampsSynced
      ELSE report.hasChanges

\* witness of C2: Tolerant call, a file whose mtimeMs moved and whose inode
\* is no longer available
C2_Witness ==
  /\ Scanned /\ ignoreMeta /\ OnlyStampsDiffer
  /\ \E e \in Range(before.libraryFiles) : \E c \in Range(fs.libraryFiles) :
       /\ e.path = c.path
       /\ e.mtimeMs # c.mtimeMs
       /\ e.ino # NoIno /\ c.ino = NoIno

\* existing file e is gone from its path and candidate file number j carries
\* its inode
RenamedTo(e, j) ==
  /\ e \in Range(before.libraryFiles)
  /\ e.ino # NoIno
  /\ \A c \in Range(fs.libraryFiles) : c.path # e.path
  /\ j \in 1..Len(fs.libraryFiles)
  /\ fs.libraryFiles[j].ino = e.ino

ReportedAsRename(e, c) ==
  /\ \E k \in 1..Len(report.libraryFilesModified) :
       /\ report.libraryFilesModified[k].old = e
       /\ report.libraryFilesModified[k].new.path = c.path
  /\ e \notin Range(report.libraryFilesRemoved)
  /\ \A a \in Range(report.libraryFilesAdded) : a.path # c.path

\* C3 as stated: under Strict, an existing file at path A with inode i that
\* has no candidate at path A is matched to any candidate file at a path B
\* with inode i: modified with its path updated to B, neither removed nor added.
C3_AnyInodeMatch ==
  (Scanned /\ ~ignoreMeta) =>
    \A e \in Range(before.libraryFiles) : \A j \in 1..Len(fs.libraryFiles) :
      RenamedTo(e, j) => ReportedAsRename(e, fs.libraryFiles[j])

\* C3 amended: the same, for the first file of the candidate list that
\* carries inode i (the only one when no two candidates share an inode).
C3_FirstInodeMatch ==
  (Scanned /\ ~ignoreMeta) =>
    \A e \in Range(before.libraryFiles) : \A j \in 1..Len(fs.libraryFiles) :
      (RenamedTo(e, j) /\ \A k \in 1..(j - 1) : fs.libraryFiles[k].ino # e.ino)
        => ReportedAsRename(e, fs.libraryFiles[j])

\* witness of C3: a Strict call that reported a rename found by inode
C3_Witness ==
  /\ Scanned /\ ~ignoreMeta
  /\ \E e \in Range(before.libraryFiles) : \E j \in 1..Len(fs.libraryFiles) :
       /\ RenamedTo(e, j)
       /\ \A k \in 1..(j - 1) : fs.libraryFiles[k].ino # e.ino
       /\ ReportedAsRename(e, fs.libraryFiles[j])

\* C4: for every matched pair whose size differs, under both policies
\* compareUpdateLibraryFile returns true, the stored size becomes the
\* candidate's, the pair is listed in libraryFilesModified and the call
\* reports hasChanges = true, whatever the timestamps and inodes.
C4_SizeChangeIsReal ==
  Scanned =>
    \A e \in Range(before.libraryFiles) :
      LET m == MatchingLibraryFile(fs.libraryFiles, e, ignoreMeta)
      IN (m # 0 /\ e.size # fs.libraryFiles[m].size) =>
           LET c == fs.libraryFiles[m]
               cmp == compareUpdateLibraryFile(e, c, ignoreMeta, scanNo)
           IN /\ cmp.hasChanges
              /\ cmp.file.size = c.size
              /\ hasLibraryFileChanged(e, c, ignoreMeta)
              /\ \E k \in 1..Len(report.libraryFilesModified) :
                   /\ report.libraryFilesModified[k].old = e
                   /\ report.libraryFilesModified[k].new.size = c.size
                   /\ report.libraryFilesModified[k].new \in Range(existing.libraryFiles)
              /\ report.hasChanges
              /\ report.returned

\* witness of C4: Tolerant call, a file matched by path with the same
\* timestamps and inode and another size
C4_Witness ==
  /\ Scanned /\ ignoreMeta
  /\ \E e \in Range(before.libraryFiles) : \E c \in Range(fs.libraryFiles) :
       /\ e.path = c.path
       /\ SameStamps(e, c)
       /\ e.size # c.size
       /\ \E k \in 1..Len(report.libraryFilesModified) :
            report.libraryFilesModified[k].old = e

----------------------------------------------------------------------------
(* Claims about ProbeCache *)

KeysOf(entries) == {entries[j].key : j \in 1..Len(entries)}

\* the history knows key k and its last touch is no older than the TTL
Live(k) ==
  \E j \in 1..Len(touched) : touched[j].key = k /\ touched[j].age <= Ttl

\* the history knows key k and its last touch is older than the TTL
Expired(k) ==
  \E j \in 1..Len(touched) : touched[j].key = k /\ touched[j].age > Ttl

\* the key held by the cache whose last touch is oldest
OldestHeld ==
  LET j == FindFirst({i \in 1..Len(touched) : touched[i].key \in KeysOf(lru)})
  IN IF j = 0 THEN NoKey ELSE touched[j].key

\* the key touched last
NewestTouched ==
  IF touched = <<>> THEN NoKey ELSE touched[Len(touched)].key

\* C5: read-your-writes per key.  When a get computes a key under which a
\* set stored data, and that entry has since been neither evicted, nor
\* cleared, nor left untouched for longer than the TTL, the get returns the
\* data of the latest such set, whatever calls on other keys came between.
C5_ReadYourWrites ==
  [][(FinishGet /\ CallKey # NoKey /\ Live(CallKey))
       => /\ lastCall'.op = "get"
          /\ lastCall'.result = HistData(touched, CallKey)
          /\ lastCall'.result \in Data]_vars

\* a get returned the data stored second under its key while the cache held
\* another key as well
C5_Witness ==
  /\ lastCall.op = "get"
  /\ lastCall.result = "d2"
  /\ Len(lru) = 2
  /\ nCalls = MaxCalls

\* C6: least-recently-touched eviction.  When the cache holds
\* PROBE_CACHE_SIZE entries and a set arrives with a key it does not hold,
\* the entry dropped is the held one whose last touch (set or get hit) is
\* oldest, all other entries stay, and the entry touched last is not the one
\* dropped.
C6_EvictsOldestTouch ==
  [][(FinishSet /\ CallKey # NoKey /\ CallKey \notin KeysOf(lru)
        /\ Len(lru) = PROBE_CACHE_SIZE)
       => /\ lastCall'.evicted = OldestHeld
          /\ OldestHeld \in KeysOf(lru)
          /\ KeysOf(lru') = (KeysOf(lru) \ {OldestHeld}) \cup {CallKey}
          /\ PROBE_CACHE_SIZE > 1 /\ NewestTouched \in KeysOf(lru)
               => lastCall'.evicted # NewestTouched]_vars

\* a set into a full cache dropped the entry of q and kept the entry of p,
\* which a get had read
C6_Witness ==
  /\ lastCall.op = "set"
  /\ lastCall.evicted = [hash |-> HashOf("q"), size |-> 1]
  /\ stats.hits = 1
  /\ Len(lru) = PROBE_CACHE_SIZE
  /\ lru[1].key = [hash |-> HashOf("p"), size |-> 1]

\* C7: expiry.  A get for a key whose last touch (its set or its last get
\* hit) is older than the TTL returns null and counts as a miss, not as a
\* hit, whether or not the cache ever filled up.
C7_ExpiredIsAbsent ==
  [][(FinishGet /\ CallKey # NoKey /\ Expired(CallKey))
       => /\ lastCall'.result = Null
          /\ stats'.misses = stats.misses + 1
          /\ stats'.hits = stats.hits
          /\ CallKey \notin KeysOf(lru')]_vars

\* a get missed on a key that had been stored and read before, in a cache
\* that never held PROBE_CACHE_SIZE entries
C7_Witness ==
  /\ lastCall.op = "get"
  /\ lastCall.result = Null
  /\ Expired(lastCall.key)
  /\ stats = [hits |-> 1, misses |-> 1, errors |-> 0]
  /\ nCalls = 3

----------------------------------------------------------------------------
(* Claims about Prober (SpecProber) *)

\* how often fn has been invoked by the call of withRetry
Invocations == Len(retry.log) + (IF retry.pc = "attempt" THEN 1 ELSE 0)

AllFailed(log, n) == \A j \in 1..n : log[j] \in Errors

\* C8: withRetry.  When withRetry resolves, fn has been invoked N times for
\* some N between 1 and `times`, the first N-1 invocations failed, the N-th
\* succeeded and its result is the value; when withRetry rejects, fn has been
\* invoked exactly `times` times (not at all for times <= 0), every
\* invocation failed and the rejection carries the error of the last one;
\* no invocation ever follows a successful one.
C8_RetryCount ==
  LET log == retry.log
      n == Len(log)
  IN /\ retry.pc = "resolved"
          => /\ n >= 1 /\ n <= retry.times
             /\ Invocations = n
             /\ log[n] = "ok" /\ AllFailed(log, n - 1)
             /\ retry.value = ProbeData
     /\ retry.pc = "rejected"
          => /\ n = (IF retry.times > 0 THEN retry.times ELSE 0)
             /\ Invocations = n
             /\ AllFailed(log, n)
             /\ retry.value = (IF n = 0 THEN Undefined ELSE log[n])
     /\ retry.pc \in {"attempt", "delay"}
          => AllFailed(log, n) /\ Invocations <= retry.times
     /\ \A j \in 1..(n - 1) : log[j] # "ok"

\* withRetry(fn, 2) resolved on the second invocation, the first having failed
C8_Witness ==
  /\ retry.owner = "direct"
  /\ retry.pc = "resolved"
  /\ retry.times = 2
  /\ retry.log = <<"e1", "ok">>

\* C9 as stated: from the call of probeWithProtection() on, Prober.probe has
\* delivered its result once more than PROBE_TIMEOUT has passed.
C9_ResultByDeadline ==
  probe.pc \in {"protected", "cacheSet"} => elapsed <= PROBE_TIMEOUT

\* C9, the part that holds: the timeout bounds the retry sequence.  The
\* promise of withTimeout settles no later than PROBE_TIMEOUT after
\* probeWithProtection() was called, whatever the external tool does, and
\* probe waits for it no longer than that; when the timer settles it, probe
\* returns {error: 'Probe timeout'}; probe returns data only when an attempt
\* succeeded before the timer fired, and then the data of that attempt.
\* What is late is the return after a success: ProbeCache.set is awaited
\* first, and no timer bounds it.
C9_TimeoutBoundsRetries ==
  /\ probe.pc = "protected" => elapsed <= PROBE_TIMEOUT
  /\ race.state \in {"resolved", "rejected"} => race.at <= PROBE_TIMEOUT
  /\ race.state = "rejected" /\ race.value = ProbeTimeoutError /\ probe.pc # "protected"
       => /\ probe.pc = "returned"
          /\ probe.result = ErrorResult(ProbeTimeoutError)
  /\ probe.pc = "returned" /\ race.state = "rejected"
       => probe.result.kind = "error"
  /\ probe.pc = "returned" /\ probe.result.kind = "data" /\ race.state # "none"
       => /\ race.state = "resolved"
          /\ retry.pc = "resolved"
          /\ probe.result.value = ProbeData

\* an attempt is still running when the timer fires: probe has returned the
\* timeout error at the deadline
C9_Witness ==
  /\ probe.pc = "returned"
  /\ probe.result = ErrorResult(ProbeTimeoutError)
  /\ retry.pc = "attempt"
  /\ elapsed = PROBE_TIMEOUT

\* C10 as stated: Prober.probe never throws or rejects; what the caller
\* receives is probe data or an error object.
C10_NeverRejects ==
  /\ probe.pc # "threw"
  /\ probe.pc = "returned" => probe.result.kind \in {"data", "error"}

----------------------------------------------------------------------------
(* Claims about Prober, partial-read variant (SpecPartial) *)

\* the temporary files in the directory that the write stream of call c created
LeftBy(c) ==
  {n \in TempNames : tempDir[n].holds # "absent" /\ tempDir[n].creator = c}

\* C11 as stated: every temporary file a call of probe created in the
\* partial-read step is gone when the call has returned, whether the probe
\* succeeded, the tool failed, or the copy failed after the file was created
\* (unlink never failing).
C11_TempFilesRemoved ==
  \A c \in ProbeIds : probes[c].pc = "returned" => LeftBy(c) = {}

\* the references the cache holds
CachedRefs == {lru[j].value : j \in 1..Len(lru)}

\* the references handed to the callers of the probes that returned data
HeldBy(c) ==
  IF probes[c].pc = "returned" /\ probes[c].result.kind = "data"
    THEN {probes[c].result.ref} ELSE {}

\* C16 as stated: probe data is handed out by value.  Whatever a caller
\* does to the object it received, the cache still holds the data as it was
\* stored, so that a later get returns them; no caller holds the object the
\* cache holds, and no two callers hold the same object.
C16_HandedOutByValue ==
  /\ \A ref \in CachedRefs : Deref(ref).data = Deref(ref).made
  /\ \A c \in ProbeIds : HeldBy(c) \cap CachedRefs = {}
  /\ \A c \in ProbeIds : \A d \in ProbeIds \ {c} : HeldBy(c) \cap HeldBy(d) = {}

\* call c is in its partial-read step or past it, and has not returned
Running(c) == probes[c].name # NoTemp /\ probes[c].pc # "returned"

\* C18 as stated: two calls of probe that run at the same time on different
\* source files use different temporary files, whatever the names of the
\* source files and the times at which the calls start.
C18_DistinctTempPaths ==
  \A c \in ProbeIds : \A d \in ProbeIds \ {c} :
    (Running(c) /\ Running(d) /\ probes[c].filePath # probes[d].filePath)
      => probes[c].name # probes[d].name

\* what one call of probe on its own returns for a media file: the data the
\* tool reads from it
IsolatedData(path) == ObjectFor(disk[path].head).made

ReturnedIsolatedData(c) ==
  /\ probes[c].result.kind = "data"
  /\ Deref(probes[c].result.ref).made = IsolatedData(probes[c].filePath)

\* C19 as stated: two calls of probe on the same unchanged media file
\* interfere through the cache only.  When both have returned, each has
\* returned what a call on its own returns, and with caching on the cache
\* holds one entry for the file, with that result.
C19_SameFileBenign ==
  \A c \in ProbeIds : \A d \in ProbeIds \ {c} :
    (/\ probes[c].pc = "returned" /\ probes[d].pc = "returned"
     /\ probes[c].filePath = probes[d].filePath
     /\ probes[c].filePath \in {"p", "q"})
      => /\ ReturnedIsolatedData(c)
         /\ ReturnedIsolatedData(d)
         /\ cacheEnabled =>
              /\ Cardinality({j \in 1..Len(lru) :
                                lru[j].key = KeyOfPath(probes[c].filePath)}) = 1
              /\ \A j \in 1..Len(lru) :
                   lru[j].key = KeyOfPath(probes[c].filePath)
                     => Deref(lru[j].value).made = IsolatedData(probes[c].filePath)

\* the fingerprint of the file cannot be taken: open or read fails, or stat
FingerprintFails(path) == ~disk[path].readable \/ ~disk[path].statable

\* this step is the whole of ProbeCache.get, or of ProbeCache.set, of call c
GetStep(c) == probes[c].pc = "get" /\ probes'[c].pc # "get"
SetStep(c) == probes[c].pc = "set" /\ probes'[c].pc # "set"

\* what the tool makes of the file itself
ToolResultOn(path) == runFFProbe(ToolRunOn(SourceContent(path)))

\* C23 as stated: for a file whose fingerprint cannot be taken (open, read
\* or stat fails), ProbeCache.get gives null and counts an error and neither
\* a hit nor a miss, ProbeCache.set stores nothing, and probe goes on to run
\* the tool and returns what the tool gives.
C23_FingerprintFailure ==
  [][\A c \in ProbeIds :
       FingerprintFails(probes[c].filePath) =>
         /\ GetStep(c) =>
              /\ probes'[c].pc \in {"stat", "ffprobe"}
              /\ stats' = [stats EXCEPT !.errors = @ + 1]
              /\ lru' = lru
         /\ SetStep(c) => lru' = lru
         /\ probes'[c].pc = "returned" =>
              /\ probes'[c].result.kind = ToolResultOn(probes[c].filePath).kind
              /\ probes'[c].result.kind = "data" =>
                   \E id \in 1..Len(objects') :
                     /\ RefOf(id) = probes'[c].result.ref
                     /\ objects'[id].made = IsolatedData(probes[c].filePath)
              /\ probes'[c].result.kind = "error" =>
                   probes'[c].result.message = ToolResultOn(probes[c].filePath).message
    ]_vars

\* readPartialFile was called by call c and threw: the name of a temporary
\* file was made, and tempFile is null when the tool is run or later
CopyFailed(c) ==
  /\ usePartialRead
  /\ probes[c].name # NoTemp
  /\ probes[c].tempFile = NoTemp
  /\ probes[c].pc \in {"ffprobe", "set", "cleanup", "returned"}

\* the result of call c is what the tool gives on the file itself
ResultOfSource(c) ==
  LET pr == probes[c]
      own == ToolResultOn(pr.filePath)
  IN /\ pr.result.kind = own.kind
     /\ pr.result.kind = "data" =>
          Deref(pr.result.ref).made = IsolatedData(pr.filePath)
     /\ pr.result.kind = "error" => pr.result.message = own.message

\* C24: with partial read on, a call of probe whose copy of the head of the
\* file failed (at stat or in the pipeline) has run the tool on the file
\* itself, and returns what that run gives, data or error: the failure of
\* the copy is not the result.
C24_CopyFailureFallsBack ==
  \A c \in ProbeIds :
    CopyFailed(c) =>
      /\ probes[c].pc = "set" =>
           Deref(probes[c].made).made = IsolatedData(probes[c].filePath)
      /\ probes[c].pc \in {"cleanup", "returned"} => ResultOfSource(c)

C24_Witness ==
  \E c \in ProbeIds :
    /\ CopyFailed(c)
    /\ probes[c].pc = "returned"
    /\ probes[c].result.kind = "data"
    /\ tempDir[probes[c].name].holds = "partial"

----------------------------------------------------------------------------
(* Claims about Prober with files that change (SpecRewrite) *)

\* what the head of a file may hold
Heads == {"p", "q", "r", "new p", "noise"}

\* the entry is filed under the hash of the content its data were read from
KeyedByProbedContent(entry) ==
  \E h \in Heads :
    /\ entry.key.hash = HashOf(h)
    /\ Deref(entry.value).made = ObjectFor(h).made

\* C29 as stated, for one call of probe on the file that is rewritten and
\* no other call: every entry of the cache is filed under the fingerprint of
\* the content the tool read, also when the file is rewritten between the
\* run of the tool and ProbeCache.set, so that a get for the new content
\* does not find data of the old content.
C29_KeyOfProbedContent ==
  (probes[2].pc = "idle" /\ probes[1].filePath \in ChangingPaths) =>
    \A j \in 1..Len(lru) : KeyedByProbedContent(lru[j])

----------------------------------------------------------------------------
(* Claims about the external tool (SpecTool) *)

\* the functions Prober.probe gets its result from
ProbeFns == {"runFFProbe", "probeMinimal", "probeFull"}

\* the child is closed, having exited with code 0, and its output parses
ParseableOutput ==
  /\ child.state = "closed"
  /\ ~child.failed
  /\ child.exitCode = 0
  /\ JsonParse(child.stdout, child.doc).ok

HasMedia(doc) ==
  HasStream(doc.streams, "audio") \/ HasStream(doc.streams, "video")

\* C17 as stated: a probe whose tool output is parseable (and has a format
\* section) fails exactly when the output has neither an audio nor a video
\* stream: with at least one of them, a video stream alone included, it
\* yields probe data, and without any it never yields probe data.
C17_StreamValidation ==
  (ParseableOutput /\ child.doc.format /\ toolCall.fn \in ProbeFns) =>
    /\ HasMedia(child.doc) => toolCall.state = "resolved"
    /\ ~HasMedia(child.doc) => toolCall.state = "rejected"

\* C20 as stated: an invocation of the tool counts as a success only when
\* the child exited with code 0 and its stdout parses; once the child is
\* closed, every invocation that exited with another code (with or without
\* output on stderr), was killed, could not start or printed something that
\* does not parse has been reported as a failure; a closed child leaves the
\* promise settled.
C20_ExitCodeAndJson ==
  toolCall.fn \in {"doProbe", "runFFProbe"} =>
    /\ toolCall.state = "resolved"
         => /\ child.exitCode = 0
            /\ JsonParse(child.stdout, child.doc).ok
    /\ (child.state = "closed"
          /\ (child.exitCode # 0 \/ ~JsonParse(child.stdout, child.doc).ok))
         => toolCall.state = "rejected"
    /\ child.state = "closed" => toolCall.state \in {"resolved", "rejected"}

----------------------------------------------------------------------------
(* More claims about the reconciler (SpecRecon) *)

PathsOf(files) == {files[j].path : j \in 1..Len(files)}

\* C12: after a call no file is reported in more than one of
\* libraryFilesAdded, libraryFilesRemoved and libraryFilesModified: a
\* candidate file matched to an existing file is not in libraryFilesAdded, an
\* existing file that was matched is not in libraryFilesRemoved (it is the
\* old side of a libraryFilesModified entry at most), an existing file that
\* was not matched is in libraryFilesRemoved and not in libraryFilesModified,
\* and no path is in both libraryFilesAdded and libraryFilesRemoved.
C12_NoDoubleCount ==
  Scanned =>
    LET cand == fs.libraryFiles
        added == report.libraryFilesAdded
        removed == report.libraryFilesRemoved
        modified == report.libraryFilesModified
    IN /\ \A e \in Range(before.libraryFiles) :
            LET m == MatchingLibraryFile(cand, e, ignoreMeta)
            IN IF m # 0
                 THEN /\ cand[m].path \notin PathsOf(added)
                      /\ e \notin Range(removed)
                 ELSE /\ e \in Range(removed)
                      /\ \A k \in 1..Len(modified) : modified[k].old # e
       /\ PathsOf(added) \cap PathsOf(removed) = {}
       /\ \A k \in 1..Len(modified) :
            /\ modified[k].old \notin Range(removed)
            /\ modified[k].new.path \notin PathsOf(added)
            /\ modified[k].new.path \notin PathsOf(removed)

\* witness of C12: one call reported a file added, another removed and a
\* third modified
C12_Witness ==
  /\ Scanned
  /\ report.libraryFilesAdded # <<>>
  /\ report.libraryFilesRemoved # <<>>
  /\ report.libraryFilesModified # <<>>

\* after the call the files of the record carry the inode, mtimeMs and
\* ctimeMs of the candidate file at their path
FileStampsSynced ==
  \A x \in Range(existing.libraryFiles) : \A c \in Range(fs.libraryFiles) :
    x.path = c.path => SameStamps(x, c)

\* C13 as stated: under Tolerant, after a call the record's inode and
\* timestamps equal the candidate's at both levels (item ino, mtime, ctime,
\* birthtime; ino, mtimeMs, ctimeMs of every matched file), and a difference
\* in these fields alone never sets hasChanges.
C13_TolerantSyncsAll ==
  (Scanned /\ ignoreMeta) =>
    /\ existing.ino = fs.ino
    /\ SameItemTimes(existing, fs)
    /\ FileStampsSynced
    /\ OnlyStampsDiffer => ~report.hasChanges

\* C13 amended: the same without the item's ino, which a Tolerant call
\* neither compares nor copies: the record keeps the inode it had.
C13_TolerantSyncsStamps ==
  (Scanned /\ ignoreMeta) =>
    /\ existing.ino = before.ino
    /\ SameItemTimes(existing, fs)
    /\ FileStampsSynced
    /\ OnlyStampsDiffer => ~report.hasChanges

\* witness of C13: a Tolerant call on an item whose inode and one of whose
\* files' inode or timestamps had changed, and nothing else: the file is
\* synced, the item's inode is not, and no change is reported
C13_Witness ==
  /\ Scanned /\ ignoreMeta /\ OnlyStampsDiffer
  /\ before.ino # fs.ino
  /\ existing.ino # fs.ino
  /\ ~SameStampsAll(before.libraryFiles, fs.libraryFiles)
  /\ FileStampsSynced
  /\ ~report.hasChanges

\* the sum of the sizes, counted from the last file
RECURSIVE TotalSize(_, _)
TotalSize(files, n) ==
  IF n = 0 THEN 0 ELSE files[n].size + TotalSize(files, n - 1)

\* C14: whenever a call reports hasChanges = true, on return the item's size
\* is the sum of the sizes of exactly the files then in
\* existingLibraryItem.libraryFiles: the files it had, without the removed
\* ones, with the modified ones as modified (at their new size), followed by
\* the added ones; lastScan is the time of the call and lastScanVersion the
\* running version.
C14_SizeRecomputed ==
  (Scanned /\ report.hasChanges) =>
    LET files == existing.libraryFiles
        kept == Len(before.libraryFiles) - Len(report.libraryFilesRemoved)
    IN /\ existing.size = TotalSize(files, Len(files))
       /\ Len(files) = kept + Len(report.libraryFilesAdded)
       /\ SubSeq(files, kept + 1, Len(files)) = report.libraryFilesAdded
       /\ \A r \in Range(report.libraryFilesRemoved) :
            r.path \notin PathsOf(files)
       /\ \A k \in 1..Len(report.libraryFilesModified) :
            \E j \in 1..kept : files[j] = report.libraryFilesModified[k].new
       /\ existing.lastScan = scanNo
       /\ existing.lastScanVersion = ScannerVersion
       /\ report.returned

\* witness of C14: a call removed a file, added one and changed the size of
\* a third, and the total differs from the one stored before
C14_Witness ==
  /\ Scanned /\ report.hasChanges
  /\ report.libraryFilesRemoved # <<>>
  /\ report.libraryFilesAdded # <<>>
  /\ \E k \in 1..Len(report.libraryFilesModified) :
       report.libraryFilesModified[k].old.size
         # report.libraryFilesModified[k].new.size
  /\ existing.size # before.size

\* a record, a file and a report without their wall-clock stamps
StripFile(f) == [f EXCEPT !.updatedAt = 0]

StripFiles(files) == [j \in 1..Len(files) |-> StripFile(files[j])]

StripItem(item) ==
  [item EXCEPT !.lastScan = 0, !.libraryFiles = StripFiles(@)]

StripReport(r) ==
  [r EXCEPT !.libraryFilesAdded = StripFiles(@),
            !.libraryFilesModified =
              [k \in 1..Len(@) |-> [old |-> @[k].old, new |-> StripFile(@[k].new)]]]

\* the times at which a call may run
CallTimes == 1..(MaxScans + 1)

----------------------------------------------------------------------------
(* More claims about Prober (SpecProber) *)

\* the race of withTimeout has been rejected by its timer
TimedOut ==
  /\ retry.owner = "probe"
  /\ race.state = "rejected"
  /\ race.value = ProbeTimeoutError

\* this step takes the loop of withRetry to a call of fn
StartsAttempt ==
  /\ retry'.pc = "attempt"
  /\ retry.pc # "attempt" \/ retry'.i # retry.i

\* this step takes the loop of withRetry to its setTimeout
SchedulesDelay == retry'.pc = "delay" /\ retry.pc # "delay"

\* C21 as stated: once the timer of withTimeout has rejected the race, the
\* loop of withRetry of that call of probe starts no further attempt and
\* schedules no further delay.
C21_NoWorkAfterTimeout ==
  [][TimedOut => ~StartsAttempt /\ ~SchedulesDelay]_vars

\* base_delay, in the unit of time of the model (1000 ms)
BaseDelay == 1

\* the delays between n consecutive attempts, the attempts counted from 1
LinearDelays(n) == [k \in 1..(n - 1) |-> k * BaseDelay]

\* C22: the delays withRetry has waited for are, in order, attempt_index *
\* base_delay for each attempt but the last one made: a delay follows every
\* failed attempt that is not the final one and nothing else, so `times`
\* failed attempts wait times - 1 delays, and a success waits none after it.
C22_LinearDelays ==
  /\ retry.pc \in {"attempt", "resolved", "rejected"} =>
        retry.delays = LinearDelays(IF retry.pc = "attempt"
                                      THEN Len(retry.log) + 1
                                      ELSE Len(retry.log))
  /\ retry.pc = "delay" =>
        /\ retry.delays = LinearDelays(Len(retry.log) + 1)
        /\ Len(retry.log) < retry.times
        /\ AllFailed(retry.log, Len(retry.log))
  /\ (retry.pc = "rejected" /\ retry.times >= 1) =>
        /\ AllFailed(retry.log, retry.times)
        /\ Len(retry.delays) = retry.times - 1

C22_Witness ==
  /\ retry.pc = "rejected"
  /\ retry.times = 3
  /\ Len(retry.log) = 3
  /\ retry.delays = <<1, 2>>

\* the values probe hands to ProbeCache.set: the data of a run of the tool
CachedValues == {ProbeData, CachedData}

\* C30: the cache holds no error and nothing of an abandoned attempt.
\* ProbeCache.set is called only when the race of withTimeout was resolved
\* by an attempt that succeeded within PROBE_TIMEOUT; every value in the
\* cache is probe data; and when probe has returned an error, the cache
\* holds what it held before the call (nothing, or the data of another
\* file), also when the attempt the timeout abandoned succeeds afterwards.
C30_NoErrorCached ==
  /\ \A j \in 1..Len(lru) : lru[j].value \in CachedValues
  /\ probe.pc = "cacheSet" =>
       /\ race.state = "resolved"
       /\ race.value = ProbeData
       /\ race.at <= PROBE_TIMEOUT
       /\ retry.pc = "resolved"
  /\ (probe.pc \in {"returned", "threw"} /\ probe.result.kind = "error") =>
       lru \in {<<>>, OtherEntry}
  /\ (\E j \in 1..Len(lru) : lru[j].value = ProbeData) =>
       /\ probe.pc = "returned"
       /\ probe.result = DataResult(ProbeData)

\* witness of C30: with caching on and another file's data in the cache,
\* probe returned the timeout error, the abandoned attempt succeeded later,
\* and the cache holds what it held before the call
C30_Witness ==
  /\ cacheEnabled
  /\ probe.pc = "returned"
  /\ probe.result = ErrorResult(ProbeTimeoutError)
  /\ retry.owner = "probe"
  /\ retry.pc = "resolved"
  /\ lru = OtherEntry

----------------------------------------------------------------------------
(* Claims about the reconciler: item keys, file lists, matching (SpecRecon) *)

\* C25: after a call hasPathChange tells whether the path or the relPath of
\* the record differed from the candidate's; hasPathChange implies
\* hasChanges; a difference in libraryFolderId or isFile, or under Strict
\* in ino, gives hasChanges and on its own leaves hasPathChange false; and
\* the record has the candidate's value of each of these keys (of ino under
\* Strict).
C25_PathChangeFlag ==
  Scanned =>
    /\ report.hasPathChange <=>
         (before.path # fs.path \/ before.relPath # fs.relPath)
    /\ report.hasPathChange => report.hasChanges
    /\ (\/ before.libraryFolderId # fs.libraryFolderId
        \/ before.isFile # fs.isFile
        \/ ~ignoreMeta /\ before.ino # fs.ino) => report.hasChanges
    /\ existing.path = fs.path
    /\ existing.relPath = fs.relPath
    /\ existing.libraryFolderId = fs.libraryFolderId
    /\ existing.isFile = fs.isFile
    /\ ~ignoreMeta => existing.ino = fs.ino

\* witness of C25: the folder id and the kind of the item differed, the
\* paths did not
C25_Witness ==
  /\ Scanned
  /\ before.libraryFolderId # fs.libraryFolderId
  /\ before.isFile # fs.isFile
  /\ before.path = fs.path
  /\ before.relPath = fs.relPath
  /\ report.hasChanges
  /\ ~report.hasPathChange

\* the k-th smallest index of a set of indexes
NthOf(idx, k) == CHOOSE i \in idx : Cardinality({j \in idx : j < i}) = k - 1

\* indexes of the existing files the call matched to no candidate file
UnmatchedExisting ==
  {i \in 1..Len(before.libraryFiles) :
     MatchingLibraryFile(fs.libraryFiles, before.libraryFiles[i], ignoreMeta) = 0}

\* indexes of the candidate files no existing file was matched to
UnmatchedCandidates ==
  {j \in 1..Len(fs.libraryFiles) :
     \A i \in 1..Len(before.libraryFiles) :
       MatchingLibraryFile(fs.libraryFiles, before.libraryFiles[i], ignoreMeta) # j}

\* C26: libraryFilesRemoved is the list of the unmatched existing files in
\* the order of the existing record, libraryFilesAdded the list of the
\* unmatched candidate files in the order of the candidate list.  With no
\* existing file and N >= 1 candidate files all N are added, none is removed
\* and hasChanges is true; with no candidate file every existing file is
\* removed and the record is left without files.
C26_ListsKeepOrder ==
  Scanned =>
    LET added == report.libraryFilesAdded
        removed == report.libraryFilesRemoved
    IN /\ Len(removed) = Cardinality(UnmatchedExisting)
       /\ \A k \in 1..Len(removed) :
            removed[k] = before.libraryFiles[NthOf(UnmatchedExisting, k)]
       /\ Len(added) = Cardinality(UnmatchedCandidates)
       /\ \A k \in 1..Len(added) :
            added[k] = AddedFileJSON(fs.libraryFiles[NthOf(UnmatchedCandidates, k)])
       /\ (before.libraryFiles = <<>> /\ fs.libraryFiles # <<>>) =>
            /\ Len(added) = Len(fs.libraryFiles)
            /\ removed = <<>>
            /\ report.hasChanges
       /\ fs.libraryFiles = <<>> =>
            /\ removed = before.libraryFiles
            /\ existing.libraryFiles = <<>>

\* witness of C26: a record without files, two candidate files, both added
C26_Witness ==
  /\ Scanned
  /\ before.libraryFiles = <<>>
  /\ Len(fs.libraryFiles) = 2
  /\ Len(report.libraryFilesAdded) = 2
  /\ report.libraryFilesAdded[1].path = fs.libraryFiles[1].path

\* C27: under Tolerant the inode identifies no file.  An existing file whose
\* path is not in the candidate list is in libraryFilesRemoved, and a
\* candidate file whose path is not in the existing record is in
\* libraryFilesAdded, whatever inodes the two lists share.
C27_TolerantIgnoresInode ==
  (Scanned /\ ignoreMeta) =>
    /\ \A e \in Range(before.libraryFiles) :
         e.path \notin PathsOf(fs.libraryFiles)
           => e \in Range(report.libraryFilesRemoved)
    /\ \A c \in Range(fs.libraryFiles) :
         c.path \notin PathsOf(before.libraryFiles)
           => AddedFileJSON(c) \in Range(report.libraryFilesAdded)

\* witness of C27: under Tolerant a file was removed and a file with the
\* same inode at another path was added
C27_Witness ==
  /\ Scanned
  /\ ignoreMeta
  /\ \E e \in Range(report.libraryFilesRemoved) :
       \E c \in Range(report.libraryFilesAdded) :
         /\ e.ino = c.ino
         /\ e.ino # NoIno
         /\ e.path # c.path

----------------------------------------------------------------------------
(* Claims about scanConfig.isLibraryFileMatch (SpecMatch) *)

\* C28 as stated: isLibraryFileMatch returns true for two files with equal
\* paths; under Strict it also returns true for two files whose paths differ
\* and whose inodes are present and equal; under Tolerant it returns false
\* for two files whose paths differ.
C28_PathThenInode ==
  matching.state = "returned" =>
    LET f1 == matching.file1
        f2 == matching.file2
    IN /\ (f1.path # NoPath /\ f1.path = f2.path) => matching.result
       /\ (/\ ~matching.ignore
           /\ f1.path # f2.path
           /\ f1.ino # NoIno
           /\ f1.ino = f2.ino) => matching.result
       /\ (matching.ignore /\ f1.path # f2.path) => ~matching.result

----------------------------------------------------------------------------
(* Claims about the reconciler: files without inode, duplicate paths,       *)
(* convergence and the frame of a call without changes (SpecRecon)          *)

\* existing file e and candidate file c both lack an inode, and neither has
\* a file at its own path on the other side
BothLackInode(e, c) ==
  /\ e \in Range(before.libraryFiles)
  /\ c \in Range(fs.libraryFiles)
  /\ e.ino = NoIno
  /\ c.ino = NoIno
  /\ e.path \notin PathsOf(fs.libraryFiles)
  /\ c.path \notin PathsOf(before.libraryFiles)

\* C31 as stated: under Strict an existing file and a candidate file that
\* both lack an inode and have different paths are not matched to each
\* other: the existing file is reported removed and the candidate added.
C31_NoMatchWithoutInode ==
  (Scanned /\ ~ignoreMeta) =>
    \A e \in Range(before.libraryFiles) : \A c \in Range(fs.libraryFiles) :
      BothLackInode(e, c) =>
        /\ e \in Range(report.libraryFilesRemoved)
        /\ AddedFileJSON(c) \in Range(report.libraryFilesAdded)

\* no two files of the list have the same path
DistinctPaths(files) ==
  \A j, k \in 1..Len(files) : files[j].path = files[k].path => j = k

\* indexes of the existing files the call matched to candidate file number j
MatchedTo(j) ==
  {i \in 1..Len(before.libraryFiles) :
     MatchingLibraryFile(fs.libraryFiles, before.libraryFiles[i], ignoreMeta) = j}

\* C32 as stated: in one call each candidate file is matched to at most one
\* existing file, and if neither the existing record nor the candidate has
\* two files with the same path, the record after the call has no two files
\* with the same path.
C32_NoDuplicatePaths ==
  (/\ Scanned
   /\ DistinctPaths(before.libraryFiles)
   /\ DistinctPaths(fs.libraryFiles)) =>
    /\ \A j \in 1..Len(fs.libraryFiles) : Cardinality(MatchedTo(j)) <= 1
    /\ DistinctPaths(existing.libraryFiles)

\* the record's files are at the paths of the candidate's files
PathsConverged ==
  PathsOf(existing.libraryFiles) = PathsOf(fs.libraryFiles)

\* a step that calls checkLibraryItemData again right after a call, with the
\* candidate and the policy of that call
RepeatedCall ==
  /\ phase = "scanned"
  /\ scanNo' = scanNo + 1
  /\ fs' = fs
  /\ ignoreMeta' = ignoreMeta

\* C33: reconciliation converges.  After a call, under either policy, the
\* set of file paths of the existing record equals the set of file paths of
\* the candidate; and a call repeated at once with the same candidate and
\* policy reports hasChanges = false and empty added, removed and modified
\* lists.
C33_Converges ==
  /\ [](Scanned => PathsConverged)
  /\ [][RepeatedCall =>
          /\ ~report'.hasChanges
          /\ ~report'.returned
          /\ report'.libraryFilesAdded = <<>>
          /\ report'.libraryFilesRemoved = <<>>
          /\ report'.libraryFilesModified = <<>>]_vars

\* witness of C33: under Strict two changes on disk left the files B and C,
\* the first call adopted them, and the second call followed at once (any
\* change on disk in between would have been reported) and found nothing to
\* report
C33_Witness ==
  /\ Scanned /\ ~ignoreMeta
  /\ scanNo = 2
  /\ fsEvents = 2
  /\ existing.lastScan = 1
  /\ PathsOf(existing.libraryFiles) = {"B", "C"}
  /\ PathsConverged
  /\ ~report.hasChanges
  /\ ListsEmpty

\* a file and a record with their inode and timestamp fields blanked
WithoutStamps(f) == [f EXCEPT !.ino = NoIno, !.mtimeMs = 0, !.ctimeMs = 0]

ItemWithoutStamps(item) ==
  [item EXCEPT !.ino = NoIno, !.mtime = 0, !.ctime = 0, !.birthtime = 0,
               !.libraryFiles = [j \in 1..Len(@) |-> WithoutStamps(@[j])]]

\* C34: when a call reports hasChanges = false, the record's size, lastScan,
\* lastScanVersion, isMissing, path and relPath are what they were, its file
\* list has the same files at the same paths in the same order, no file's
\* updatedAt is set and save is not invoked.  Under Strict the record is
\* left entirely unchanged; under Tolerant it differs from before in inode
\* and timestamp fields at most.
C34_NoChangeFrame ==
  (Scanned /\ ~report.hasChanges) =>
    /\ ~report.returned
    /\ existing.size = before.size
    /\ existing.lastScan = before.lastScan
    /\ existing.lastScanVersion = before.lastScanVersion
    /\ existing.isMissing = before.isMissing
    /\ existing.path = before.path
    /\ existing.relPath = before.relPath
    /\ existing.saves = before.saves
    /\ Len(existing.libraryFiles) = Len(before.libraryFiles)
    /\ \A j \in 1..Len(before.libraryFiles) :
         /\ existing.libraryFiles[j].path = before.libraryFiles[j].path
         /\ existing.libraryFiles[j].updatedAt = before.libraryFiles[j].updatedAt
    /\ ~ignoreMeta => existing = before
    /\ ignoreMeta => ItemWithoutStamps(existing) = ItemWithoutStamps(before)

\* witness of C34: a Tolerant call that reported no change and stored a
\* new item mtime and a file's new inode
C34_Witness ==
  /\ Scanned /\ ignoreMeta
  /\ ~report.hasChanges
  /\ existing.mtime # before.mtime
  /\ \E j \in 1..Len(before.libraryFiles) :
       existing.libraryFiles[j].ino # before.libraryFiles[j].ino

----------------------------------------------------------------------------
(* Claims about the counters of ProbeCache (SpecCache) *)

\* hits + misses + errors
CounterSum(st) == st.hits + st.misses + st.errors

\* no counter is lower in st2 than in st1
NotDecreased(st1, st2) ==
  /\ st2.hits >= st1.hits
  /\ st2.misses >= st1.misses
  /\ st2.errors >= st1.errors

\* C35: counter accounting of ProbeCache.  With caching enabled a get, when
\* it completes, has raised exactly one of hits, misses and errors, by one,
\* and hits exactly when it returns data; with caching disabled get and set
\* return at once and no counter and no entry ever changes; no step lowers
\* a counter, clear included; and the cache never holds more than
\* PROBE_CACHE_SIZE entries.
C35_CounterAccounting ==
  /\ [](Len(lru) <= PROBE_CACHE_SIZE)
  /\ [](~cacheEnabled => (lru = <<>> /\ CounterSum(stats) = 0 /\ call = IdleCall))
  /\ [][NotDecreased(stats, stats')]_vars
  /\ [][(call.pc = "idle" /\ call'.pc = "hash") => stats' = stats]_vars
  /\ [][(call.op = "get" /\ call'.pc = "idle") =>
          /\ CounterSum(stats') = CounterSum(stats) + 1
          /\ stats'.hits = stats.hits + 1 <=> lastCall'.result \in Data]_vars
  /\ [][(call.op # "get" \/ call'.pc # "idle") =>
          (stats'.hits = stats.hits /\ stats'.misses = stats.misses)]_vars

\* witness of C35: four calls with a clear among them left one hit, one
\* miss and one error counted and the cache empty
C35_Witness ==
  /\ cacheEnabled
  /\ call.pc = "idle"
  /\ nCalls = MaxCalls
  /\ stats = [hits |-> 1, misses |-> 1, errors |-> 1]
  /\ lastCall.op = "clear"
  /\ lru = <<>>
====
